---- MODULE Spec2Model ----
(***************************************************************************)
(* Model of the verification orchestrator, verifyClaimsInText              *)
(* (src/src/app/actions.ts, lines 153-342), and of the collaborators it    *)
(* awaits.  One batch call is modelled: the blank-text guard, the          *)
(* extraction, the fan-out of one asynchronous pipeline per extracted      *)
(* claim (Promise.all over map), the stages of each pipeline with their    *)
(* try/catch blocks, and the join.  Every await is a suspension point:     *)
(* one action per completion (return or throw) of the awaited call, which  *)
(* runs the code up to the next await.                                     *)
(*                                                                         *)
(* Conventions.  A JavaScript optional value is a set with at most one     *)
(* element (Undefined is {}).  A free text that the code concatenates is   *)
(* a sequence of pieces; numbers in [0,1] are kept in hundredths.          *)
(***************************************************************************)
EXTENDS Integers, Sequences, FiniteSets, TLC

\* ------------------------------------------------------------------ bounds
\* The largest number of claims the extractor returns for one text.
MaxClaims == 2

\* ------------------------------------------------------- optional values
Undefined == {}
Some(v) == {v}
IsDefined(o) == o # {}
Get(o) == CHOOSE v \in o : TRUE

\* ------------------------------------------------------------ input text
\* The characters String.prototype.trim removes.
WhiteSpace == {" ", "\t", "\n"}

\* The texts the caller passes: empty, whitespace-only, and a non-blank text
\* padded with whitespace, each a sequence of characters.
Texts ==
    { <<>>, <<" ">>, <<" ", "\n", "\t">>,
      <<" ", "a", "b", " ">> }

RECURSIVE trimStart(_)
trimStart(s) ==
    IF s = <<>> THEN <<>>
    ELSE IF Head(s) \in WhiteSpace THEN trimStart(Tail(s)) ELSE s

RECURSIVE trimEnd(_)
trimEnd(s) ==
    IF s = <<>> THEN <<>>
    ELSE IF s[Len(s)] \in WhiteSpace THEN trimEnd(SubSeq(s, 1, Len(s) - 1)) ELSE s

\* text.trim()
trim(s) == trimEnd(trimStart(s))

\* A faulty variant of isBlank that forgets to trim: only the empty text is blank.
isBlankNoTrim(text) == text = <<>>

\* !text.trim()  (actions.ts:154): the empty string is the only falsy string.
isBlank(text) == trim(text) = <<>>

\* ---------------------------------------------------------- thrown values
\* A thrown value is an Error with a message, or a value that is not an
\* Error (here a thrown string), of which String(error) is the text.
Thrown ==
    { [instanceofError |-> TRUE,  message |-> "model call failed", str |-> "Error: model call failed"],
      [instanceofError |-> FALSE, message |-> "",                  str |-> "quota exceeded"] }

\* The TypeError of calling .map on an undefined claims list.
TypeErrorMapOfUndefined ==
    [instanceofError |-> TRUE,
     message |-> "Cannot read properties of undefined (reading 'map')",
     str |-> "TypeError: Cannot read properties of undefined (reading 'map')"]

\* A faulty variant of errorMessageOf that reports a fixed text whatever was thrown.
errorMessageFixed(error) == "An error occurred"

\* error instanceof Error ? error.message : String(error)
\* (actions.ts:319 and actions.ts:336)
errorMessageOf(error) ==
    IF error.instanceofError THEN error.message ELSE error.str

\* ------------------------------------------------------ extractor outputs
\* The claim texts the extractor produces, in the order it lists them.  The
\* third repeats the first: two claims of one batch may have the same text.
ClaimPool == <<"The sky is blue.", "Paris is in France.", "The sky is blue.", "Water is wet.">>

\* The value extractClaims resolves to: { claims } with a list of zero to
\* MaxClaims claims, or with the claims property missing.
ExtractOutputs ==
    { [claims |-> Some(SubSeq(ClaimPool, 1, k))] : k \in 0..MaxClaims }
        \cup { [claims |-> Some(<<ClaimPool[2], ClaimPool[1]>>)] }
        \cup { [claims |-> Undefined] }

\* A faulty variant of noClaimsFound that tests the length only for a defined list
\* and lets a missing list through.
noClaimsFoundLengthOnly(extractedClaimStrings) ==
    IsDefined(extractedClaimStrings) /\ Len(Get(extractedClaimStrings)) = 0

\* !extractedClaimStrings || extractedClaimStrings.length === 0
\* (actions.ts:161)
noClaimsFound(extractedClaimStrings) ==
    \/ ~IsDefined(extractedClaimStrings)
    \/ Len(Get(extractedClaimStrings)) = 0

\* --------------------------------------------------------- claim quality
\* What the quality model yields when it yields an output: an assessment.
QualityModelOutputs ==
    { Some([atomicity |-> "high", fluency |-> "good", decontextualization |-> "medium",
            faithfulness |-> "high", focus |-> "specific", checkworthiness |-> "high",
            overallAssessment |-> <<"Clear, atomic and checkable.">>]) }

\* A faulty variant of evaluateClaimQualityFlow whose default copies the
\* orchestrator's fallback rating: faithfulness 'na' whether or not the
\* original text was given.
evaluateClaimQualityFlowAlwaysNA(input, output) ==
    IF ~IsDefined(output)
    THEN [atomicity |-> "low", fluency |-> "poor", decontextualization |-> "low",
          faithfulness |-> "na",
          focus |-> "broad", checkworthiness |-> "low",
          overallAssessment |-> <<"Could not evaluate claim quality due to an LLM error.">>]
    ELSE Get(output)

\* evaluateClaimQualityFlow: the model's output, or the flow's own default
\* when the model yields none (faithfulness depends on originalText).
evaluateClaimQualityFlow(input, output) ==
    IF ~IsDefined(output)
    THEN [atomicity |-> "low", fluency |-> "poor", decontextualization |-> "low",
          faithfulness |-> IF IsDefined(input.originalText) /\ Get(input.originalText) # <<>>
                           THEN "low" ELSE "na",
          focus |-> "broad", checkworthiness |-> "low",
          overallAssessment |-> <<"Could not evaluate claim quality due to an LLM error.">>]
    ELSE Get(output)

\* A faulty variant of FallbackQuality that copies the flow's default for a known
\* original text: faithfulness 'low' instead of 'na'.
FallbackQualityFaithfulnessLow ==
    [atomicity |-> "low", fluency |-> "poor", decontextualization |-> "low",
     faithfulness |-> "low", focus |-> "broad", checkworthiness |-> "low",
     overallAssessment |-> <<"Could not evaluate claim quality due to an error.">>]

\* The fallback metrics of the catch block (actions.ts:208-212).
FallbackQuality ==
    [atomicity |-> "low", fluency |-> "poor", decontextualization |-> "low",
     faithfulness |-> "na", focus |-> "broad", checkworthiness |-> "low",
     overallAssessment |-> <<"Could not evaluate claim quality due to an error.">>]

\* -------------------------------------------------------------- reasoner
Verdicts == {"supported", "contradicted", "neutral"}

\* What the reasoning model yields when it yields an output, one per
\* verdict.  The neutral output has an empty reasoning text and no nuance.
ReasonerModelOutputs ==
    { Some([overallVerdict |-> "supported", reasoning |-> <<"Both sub-claims hold.">>,
            verdictConfidence |-> Some(95), nuanceDescription |-> Undefined,
            subClaimsForFurtherVerification |-> Undefined]),
      Some([overallVerdict |-> "contradicted", reasoning |-> <<"A sub-claim is refuted.">>,
            verdictConfidence |-> Some(60), nuanceDescription |-> Some(<<"Depends on context.">>),
            subClaimsForFurtherVerification |-> Some(<<"sub-claim A">>)]),
      Some([overallVerdict |-> "neutral", reasoning |-> <<>>,
            verdictConfidence |-> Some(40), nuanceDescription |-> Undefined,
            subClaimsForFurtherVerification |-> Some(<<>>)]) }

\* A faulty variant of subClaimReasoningFlow whose default for a missing
\* output leaves the confidence out.
subClaimReasoningFlowNoConfidence(input, output) ==
    IF ~IsDefined(output)
    THEN [overallVerdict |-> "neutral",
          reasoning |-> <<"Could not perform sub-claim reasoning due to an LLM error.">>,
          verdictConfidence |-> Undefined,
          nuanceDescription |-> Some(<<"LLM failed to produce an output for sub-claim reasoning.">>),
          subClaimsForFurtherVerification |-> Some(<<>>)]
    ELSE [Get(output) EXCEPT !.subClaimsForFurtherVerification =
              IF IsDefined(@) THEN @ ELSE Some(<<>>)]

\* subClaimReasoningFlow (sub-claim-reasoning.ts:89-107).
subClaimReasoningFlow(input, output) ==
    IF ~IsDefined(output)
    THEN [overallVerdict |-> "neutral",
          reasoning |-> <<"Could not perform sub-claim reasoning due to an LLM error.">>,
          verdictConfidence |-> Some(0),
          nuanceDescription |-> Some(<<"LLM failed to produce an output for sub-claim reasoning.">>),
          subClaimsForFurtherVerification |-> Some(<<>>)]
    ELSE [Get(output) EXCEPT !.subClaimsForFurtherVerification =
              IF IsDefined(@) THEN @ ELSE Some(<<>>)]

\* mapVerdictToStatus (actions.ts:133-135).
mapVerdictToStatus(verdict) == verdict

\* -------------------------------------------------------- trust analyzer
\* What analyzeTrustChain resolves to: two analyzed sources, or none.
TrustOutputs ==
    { [trustScore |-> 90, reasoning |-> <<"Two encyclopedic abstracts agree.">>,
       analyzedSources |-> Some(<< [title |-> "Abstract A", link |-> "https://a.example",
                                    snippet |-> "snippet A", type |-> Some("Abstract")],
                                   [title |-> "Topic B", link |-> "https://b.example",
                                    snippet |-> "snippet B", type |-> Some("RelatedTopic")] >>),
       generatedSearchQuery |-> Some(<<"generated query">>)],
      [trustScore |-> 0, reasoning |-> <<"No output; nothing could be analyzed.">>,
       analyzedSources |-> Some(<<>>),
       generatedSearchQuery |-> Some(<<"generated query">>)] }

\* ------------------------------------------------- explanation synthesizer
\* What the explanation model yields when it yields an output.
ExplanationModelOutputs ==
    { Some([explanation |-> <<"Synthesized explanation.">>,
            correctedInformation |-> Some(<<"The corrected fact.">>)]) }

\* generateExplanationFlow (ai-explanation.ts:84-94).
generateExplanationFlow(input, output) ==
    IF ~IsDefined(output)
    THEN [explanation |-> <<"Could not generate an explanation due to an LLM error. The evidence bundle (including potential sub-claim analysis) could not be synthesized.">>,
          correctedInformation |-> Undefined]
    ELSE Get(output)

\* ------------------------------------------------------------- cache gate
\* A faulty variant of checkSmartCache in which the lookup the stub leaves
\* commented out finds an earlier result for the claim text.
checkSmartCacheFinds(claimText) ==
    Some([id |-> <<"claim", "1700000000000", "0">>, claimText |-> claimText,
          status |-> "supported", isProcessing |-> FALSE, originalTextContext |-> Undefined])

\* checkSmartCache (actions.ts:144-150): the stub resolves to null, here the
\* absent value, for every claim text.
checkSmartCache(claimText) == Undefined

\* ------------------------------------------------------------ identifiers
\* The values Date.now() takes while the claims are mapped.
Instants == <<"1730800000000", "1730800000001">>

\* A faulty variant of claimIdOf that leaves the index out of the id.
claimIdOfInstantOnly(now, index) == <<"claim", now>>

\* `claim-${Date.now()}-${index}` (actions.ts:175), index counted from 0.
claimIdOf(now, index) == <<"claim", now, ToString(index)>>

NoClaimsFoundId == <<"no_claims_found">>
ErrorGeneralId == <<"error-general">>

\* `err-src-${claimId}`, `fallback-src-${claimId}`, `trust-src-${claimId}-${idx}`
errSrcId(claimId) == <<"err-src">> \o claimId
fallbackSrcId(claimId) == <<"fallback-src">> \o claimId
trustSrcId(claimId, idx) == <<"trust-src">> \o claimId \o <<ToString(idx)>>

\* ---------------------------------------------------------------- sources
\* A MockSource (types.ts:5-12); the object literals of actions.ts set no
\* trustScore and no type.
MockSource(id, url, title, shortSummary) ==
    [id |-> id, url |-> url, title |-> title, trustScore |-> Undefined,
     shortSummary |-> Some(shortSummary), type |-> Undefined]

\* The source pushed when trust analysis throws (actions.ts:254-259).
errorSource(claimId) ==
    << MockSource(errSrcId(claimId), "#", "Trust Analysis Error",
                  "Could not perform detailed source analysis due to an error.") >>

\* The source pushed when the analyzer returns no sources (actions.ts:244-249).
fallbackSource(claimId) ==
    << MockSource(fallbackSrcId(claimId), "#", "No specific sources found by DuckDuckGo",
                  "The live search (DuckDuckGo) did not return specific sources for this claim.") >>

\* A faulty variant of mapAnalyzedSources that lists the sources last to
\* first.
mapAnalyzedSourcesReversed(claimId, analyzedSources) ==
    [k \in 1..Len(analyzedSources) |->
        LET src == analyzedSources[Len(analyzedSources) + 1 - k] IN
        MockSource(trustSrcId(claimId, k - 1), src.link, src.title, src.snippet)]

\* A faulty variant of mapAnalyzedSources that shows the source's id where the
\* analyzer's snippet belongs.
mapAnalyzedSourcesSummaryFromId(claimId, analyzedSources) ==
    [k \in 1..Len(analyzedSources) |->
        [MockSource(trustSrcId(claimId, k - 1), analyzedSources[k].link,
                    analyzedSources[k].title, analyzedSources[k].snippet)
            EXCEPT !.shortSummary = Some(trustSrcId(claimId, k - 1))]]

\* analyzedSources.map((src, idx) => ({...}))  (actions.ts:237-242), idx from 0.
mapAnalyzedSources(claimId, analyzedSources) ==
    [k \in 1..Len(analyzedSources) |->
        MockSource(trustSrcId(claimId, k - 1), analyzedSources[k].link,
                   analyzedSources[k].title, analyzedSources[k].snippet)]

\* ------------------------------------------------- the pipeline's locals
\* The let-bindings of one claim's callback (actions.ts:191-200).
InitialLocals(claimId) ==
    [claimId |-> claimId,
     actualSources |-> <<>>,
     trustAnalysisData |-> Undefined,
     finalExplanation |-> <<"No detailed explanation could be generated.">>,
     finalStatus |-> "neutral",
     explanationFromSubClaims |-> <<"Sub-claim analysis was not conclusive or did not provide reasoning.">>,
     reasoningFromTrustAnalysis |-> <<"Trust analysis did not yield specific reasoning.">>,
     generatedQueryForTrustAnalysis |-> Undefined,
     claimQuality |-> Undefined,
     verdictConfidenceVal |-> Undefined,
     nuanceDesc |-> Undefined,
     overallVerdict |-> Undefined]

\* claimQuality = await evaluateClaimQuality(...)  (actions.ts:205)
afterQualityReturn(l, quality) == [l EXCEPT !.claimQuality = Some(quality)]

\* catch (qualityError)  (actions.ts:206-213)
qualityCatch(l) == [l EXCEPT !.claimQuality = Some(FallbackQuality)]

\* The text a JavaScript `a || b` keeps: b when a is the empty string.
orElse(a, b) == IF a = <<>> THEN b ELSE a

\* The optional text a JavaScript `if (a)` accepts: defined and not empty.
truthy(o) == IsDefined(o) /\ Get(o) # <<>>

\* The lines after the reasoner returns (actions.ts:217-220).
afterReasonerReturn(l, subClaimResult) ==
    [l EXCEPT !.finalStatus = mapVerdictToStatus(subClaimResult.overallVerdict),
              !.explanationFromSubClaims =
                    orElse(subClaimResult.reasoning,
                           <<"Sub-claim analysis did not provide detailed reasoning.">>),
              !.verdictConfidenceVal = subClaimResult.verdictConfidence,
              !.nuanceDesc = subClaimResult.nuanceDescription,
              !.overallVerdict = Some(subClaimResult.overallVerdict)]

\* The lines after the trust analyzer returns (actions.ts:228-250).
afterTrustReturn(l, trustChainResponse) ==
    [l EXCEPT !.trustAnalysisData =
                    Some([score |-> Some(trustChainResponse.trustScore),
                          reasoning |-> Some(trustChainResponse.reasoning),
                          generatedSearchQuery |-> trustChainResponse.generatedSearchQuery]),
              !.reasoningFromTrustAnalysis = trustChainResponse.reasoning,
              !.generatedQueryForTrustAnalysis = trustChainResponse.generatedSearchQuery,
              !.actualSources =
                    IF IsDefined(trustChainResponse.analyzedSources)
                       /\ Len(Get(trustChainResponse.analyzedSources)) > 0
                    THEN mapAnalyzedSources(l.claimId, Get(trustChainResponse.analyzedSources))
                    ELSE l.actualSources \o fallbackSource(l.claimId)]

\* A faulty variant of trustCatch that marks the claim as failed.
trustCatchEscalates(l) ==
    [l EXCEPT !.finalStatus = "error",
              !.reasoningFromTrustAnalysis =
                    <<"Could not perform detailed source analysis due to an error during trust chain analysis.">>,
              !.actualSources = l.actualSources \o errorSource(l.claimId),
              !.trustAnalysisData =
                    Some([score |-> Some(0),
                          reasoning |-> Some(<<"Error during trust analysis execution.">>),
                          generatedSearchQuery |-> Some(<<"Error in query generation/execution">>)])]

\* catch (trustError)  (actions.ts:251-265)
trustCatch(l) ==
    [l EXCEPT !.reasoningFromTrustAnalysis =
                    <<"Could not perform detailed source analysis due to an error during trust chain analysis.">>,
              !.actualSources = l.actualSources \o errorSource(l.claimId),
              !.trustAnalysisData =
                    Some([score |-> Some(0),
                          reasoning |-> Some(<<"Error during trust analysis execution.">>),
                          generatedSearchQuery |-> Some(<<"Error in query generation/execution">>)])]

\* ------------------------------------------------------ the evidence text
Digits == <<"0", "1", "2", "3", "4", "5", "6", "7", "8", "9">>

\* Number.prototype.toFixed(2) of a number in [0,1] kept in hundredths.
toFixed2(n) ==
    << Digits[(n \div 100) + 1], ".", Digits[((n \div 10) % 10) + 1], Digits[(n % 10) + 1] >>

\* x?.toFixed(2) ?? 'N/A'
toFixed2OrNA(o) == IF IsDefined(o) THEN toFixed2(Get(o)) ELSE <<"N/A">>

\* actualSources.map(s => s.title).slice(0,2).join('; ')
RECURSIVE joinTitles(_)
joinTitles(sources) ==
    IF sources = <<>> THEN <<>>
    ELSE IF Len(sources) = 1 THEN <<sources[1].title>>
    ELSE <<sources[1].title, "; ">> \o joinTitles(Tail(sources))

firstTwo(sources) == SubSeq(sources, 1, IF Len(sources) < 2 THEN Len(sources) ELSE 2)

\* The quality paragraph (actions.ts:269-271).
qualityEvidence(l) ==
    IF IsDefined(l.claimQuality)
    THEN LET q == Get(l.claimQuality) IN
         <<"Claim Quality Assessment: ">> \o q.overallAssessment
            \o <<"\n(Atomicity: ", q.atomicity, ", Fluency: ", q.fluency,
                 ", Decontextualization: ", q.decontextualization,
                 ", Faithfulness: ", q.faithfulness, ", Focus: ", q.focus,
                 ", Check-worthiness: ", q.checkworthiness, ")\n\n">>
    ELSE <<>>

\* The reasoning paragraph (actions.ts:272-275).
reasoningEvidence(l) ==
    <<"Verdict from Sub-Claim Analysis: ", Get(l.overallVerdict), " (Confidence: ">>
        \o toFixed2OrNA(l.verdictConfidenceVal)
        \o <<").\nReasoning from Sub-Claims: ">> \o l.explanationFromSubClaims \o <<"\n">>
        \o (IF truthy(l.nuanceDesc)
            THEN <<"Nuance/Ambiguity: ">> \o Get(l.nuanceDesc) \o <<"\n">>
            ELSE <<>>)

\* The trust paragraph (actions.ts:276-284).
trustEvidence(l) ==
    <<"\nVerdict from Trust & Source Analysis (Trust Score: ">>
        \o toFixed2OrNA(IF IsDefined(l.trustAnalysisData)
                        THEN Get(l.trustAnalysisData).score ELSE Undefined)
        \o <<"):\nReasoning from Trust/Source Analysis: ">>
        \o l.reasoningFromTrustAnalysis \o <<"\n">>
        \o (IF truthy(l.generatedQueryForTrustAnalysis)
            THEN <<"Search Query Used for Trust Analysis: \"">>
                    \o Get(l.generatedQueryForTrustAnalysis) \o <<"\"\n">>
            ELSE <<>>)
        \o (IF Len(l.actualSources) > 0
               /\ l.actualSources[1].id # fallbackSrcId(l.claimId)
               /\ l.actualSources[1].id # errSrcId(l.claimId)
            THEN <<"Key Sources Considered (from DuckDuckGo): ">>
                    \o joinTitles(firstTwo(l.actualSources)) \o <<".">>
            ELSE <<"No specific key sources were highlighted by the trust analysis.">>)

\* A faulty variant of evidenceForExplanation that appends the trust findings
\* before the reasoning summary.
evidenceTrustBeforeReasoning(l, claimText) ==
    <<"Claim: \"", claimText, "\"\n">>
        \o qualityEvidence(l) \o trustEvidence(l) \o reasoningEvidence(l)

\* evidenceForExplanation (actions.ts:268-284).
evidenceForExplanation(l, claimText) ==
    <<"Claim: \"", claimText, "\"\n">>
        \o qualityEvidence(l) \o reasoningEvidence(l) \o trustEvidence(l)

\* finalExplanation = detailedExplanationResult.explanation  (actions.ts:292)
afterExplanationReturn(l, detailedExplanationResult) ==
    [l EXCEPT !.finalExplanation = detailedExplanationResult.explanation]

\* A faulty variant of explanationCatch that only logs the error and keeps the
\* initial explanation.
explanationCatchKeepsInitial(l) == l

\* catch (explanationError)  (actions.ts:293-296)
explanationCatch(l) ==
    [l EXCEPT !.finalExplanation =
        <<"Sub-Claim Reasoning: ">> \o l.explanationFromSubClaims
            \o <<"\n\nTrust Analysis Reasoning: ">> \o l.reasoningFromTrustAnalysis]

\* ---------------------------------------------------------------- results
\* A ClaimVerificationResult (types.ts:24-42) with every optional property
\* present as an optional value.
Result(id, claimText, status, explanation) ==
    [id |-> id, claimText |-> claimText, status |-> status,
     explanation |-> explanation, correctedInformation |-> Undefined,
     trustAnalysis |-> Undefined, sources |-> <<>>, isProcessing |-> FALSE,
     errorMessage |-> Undefined, claimQualityMetrics |-> Undefined,
     verdictConfidence |-> Undefined, nuanceDescription |-> Undefined,
     originalTextContext |-> Undefined]

\* The sentinel of an empty extraction (actions.ts:162-170).
NoClaimsFoundResult(text) ==
    [Result(NoClaimsFoundId, "No verifiable claims found in the provided text.", "neutral",
            <<"The system could not identify any specific statements to verify. Please try rephrasing or providing more detailed text.">>)
        EXCEPT !.originalTextContext = Some(text)]

\* The sentinel of the top-level catch (actions.ts:331-340).
ErrorGeneralResult(error, text) ==
    [Result(ErrorGeneralId, "Overall Input Text Processing Error", "error",
            <<"An error occurred while trying to process the input text and extract claims.">>)
        EXCEPT !.errorMessage = Some(errorMessageOf(error)),
               !.originalTextContext = Some(text)]

\* The result of a pipeline that ran to its end (actions.ts:298-310).
ClaimResult(l, claimText, text) ==
    [Result(l.claimId, claimText, l.finalStatus, l.finalExplanation)
        EXCEPT !.trustAnalysis = l.trustAnalysisData,
               !.sources = l.actualSources,
               !.claimQualityMetrics = l.claimQuality,
               !.verdictConfidence = l.verdictConfidenceVal,
               !.nuanceDescription = l.nuanceDesc,
               !.originalTextContext = Some(text)]

\* A faulty variant of ClaimErrorResult that leaves the quality metrics out,
\* as the batch-level sentinels do.
ClaimErrorResultNoQuality(l, claimText, error, text) ==
    [Result(l.claimId, claimText, "error",
            <<"An error occurred during the main verification pipeline for this claim.">>)
        EXCEPT !.errorMessage = Some(errorMessageOf(error)),
               !.originalTextContext = Some(text)]

\* A faulty variant of ClaimErrorResult that reports the locals gathered so far,
\* as the result of a completed pipeline does.
ClaimErrorResultWithLocals(l, claimText, error, text) ==
    [Result(l.claimId, claimText, "error", l.finalExplanation)
        EXCEPT !.errorMessage = Some(errorMessageOf(error)),
               !.trustAnalysis = Some([score |-> Some(0), reasoning |-> Undefined,
                                       generatedSearchQuery |-> Undefined]),
               !.claimQualityMetrics = l.claimQuality,
               !.verdictConfidence = Some(0),
               !.originalTextContext = Some(text)]

\* The result of the pipeline's catch block (actions.ts:314-324).
ClaimErrorResult(l, claimText, error, text) ==
    [Result(l.claimId, claimText, "error",
            <<"An error occurred during the main verification pipeline for this claim.">>)
        EXCEPT !.errorMessage = Some(errorMessageOf(error)),
               !.claimQualityMetrics = l.claimQuality,
               !.originalTextContext = Some(text)]

\* ------------------------------------------------- promises and outcomes
\* How the promise of one claim's async callback settles.
Fulfilled(value) == [kind |-> "fulfilled", value |-> Some(value), reason |-> Undefined]
Rejected(reason) == [kind |-> "rejected", value |-> Undefined, reason |-> Some(reason)]

\* A faulty variant of claimCatch without the catch block: the error escapes the
\* callback and its promise rejects.
claimCatchMissing(l, claimText, error, text) == Rejected(error)

\* catch (error) of the pipeline (actions.ts:311-325): the callback returns
\* the error result, so its promise is fulfilled.
claimCatch(l, claimText, error, text) ==
    Fulfilled(ClaimErrorResult(l, claimText, error, text))

\* The first index at which no value has been stored yet.
firstFree(values) ==
    CHOOSE k \in 1..Len(values) :
        /\ ~IsDefined(values[k])
        /\ \A j \in 1..(k - 1) : IsDefined(values[j])

\* A faulty variant of promiseAllSettle that collects the values as they arrive.
promiseAllSettleInArrivalOrder(all, index, settled) ==
    IF settled.kind = "fulfilled"
    THEN [all EXCEPT !.values[firstFree(all.values)] = settled.value]
    ELSE IF IsDefined(all.rejected) THEN all
    ELSE [all EXCEPT !.rejected = settled.reason]

\* Promise.all (actions.ts:173): a fulfilled promise stores its value at its
\* own index; the first rejection rejects the whole.
promiseAllSettle(all, index, settled) ==
    IF settled.kind = "fulfilled"
    THEN [all EXCEPT !.values[index] = settled.value]
    ELSE IF IsDefined(all.rejected) THEN all
    ELSE [all EXCEPT !.rejected = settled.reason]

\* How the call of verifyClaimsInText ends.
Pending == [kind |-> "pending", value |-> <<>>, error |-> Undefined]
Returns(value) == [kind |-> "return", value |-> value, error |-> Undefined]
Throws(error) == [kind |-> "throw", value |-> <<>>, error |-> Some(error)]

\* A faulty variant of topLevelCatch that lets the error out.
topLevelCatchRethrows(error, text) == Throws(error)

\* catch (error) at the top level (actions.ts:329-341).
topLevelCatch(error, text) == Returns(<<ErrorGeneralResult(error, text)>>)

\* A faulty variant of blankTextReturn that answers with a sentinel result.
blankTextReturnSentinel(text) == Returns(<<NoClaimsFoundResult(text)>>)

\* return []  (actions.ts:155)
blankTextReturn(text) == Returns(<<>>)

\* maxIterations of the primary reasoner call.
PrimaryMaxIterations == 2

\* ------------------------------------------------------------------ state
VARIABLES
    pc,                     \* where verifyClaimsInText stands
    text,                   \* its argument
    extractedClaimStrings,  \* the claims the extractor returned
    claimPc,                \* per claim: the call its pipeline awaits
    loc,                    \* per claim: the let-bindings of its callback
    all,                    \* the Promise.all over the callbacks
    extractCalls,           \* the calls of extractClaims, with how each ended
    claimCalls,             \* per claim: its collaborator calls, with how each ended
    outcome,                \* how the call of verifyClaimsInText ended
    previous,               \* the call before this one, once the caller calls again
    search                  \* the run of internetSearchTool under study

vars ==
    <<pc, text, extractedClaimStrings, claimPc, loc, all, extractCalls, claimCalls, outcome,
      previous, search>>

Claims == IF pc = "idle" \/ pc = "extracting" THEN {} ELSE DOMAIN claimPc

\* A call in flight, and the same call once it returned or threw.
Call(fn, args) == [fn |-> fn, args |-> args, result |-> Undefined]
Returned(value) == [kind |-> "return", value |-> Some(value), error |-> Undefined]
Threw(error) == [kind |-> "throw", value |-> Undefined, error |-> error]
complete(calls, result) == [calls EXCEPT ![Len(calls)].result = Some(result)]

\* No run of the search tool is under study.
NoSearch == [pc |-> "idle"]

Init ==
    /\ pc = "idle"
    /\ text = <<>>
    /\ extractedClaimStrings = <<>>
    /\ claimPc = <<>>
    /\ loc = <<>>
    /\ all = [values |-> <<>>, rejected |-> Undefined]
    /\ extractCalls = <<>>
    /\ claimCalls = <<>>
    /\ outcome = Pending
    /\ previous = Undefined
    /\ search = NoSearch

\* verifyClaimsInText(t) up to its first await (actions.ts:153-159).
Invoke(t) ==
    /\ pc = "idle"
    /\ text' = t
    /\ IF isBlank(t)
       THEN /\ outcome' = blankTextReturn(t)
            /\ pc' = "done"
            /\ UNCHANGED extractCalls
       ELSE /\ extractCalls' = Append(extractCalls, Call("extractClaims", [text |-> t]))
            /\ pc' = "extracting"
            /\ UNCHANGED outcome
    /\ UNCHANGED <<extractedClaimStrings, claimPc, loc, all, claimCalls, previous, search>>

\* The assignments of Date.now() to the callbacks, which run one after the
\* other: the first `tick` callbacks read the first instant, the others the
\* second.
nowsOf(n, tick) == [i \in 1..n |-> IF i <= tick THEN Instants[1] ELSE Instants[2]]

\* The callbacks of one call run in a row without suspending before they
\* read the clock, and read the same instant: the first instant in a first
\* call, the second in a call that follows another.
Ticks(n) == IF IsDefined(previous) THEN {0} ELSE {n}

\* extractClaims resolves (actions.ts:159-178): the empty-extraction
\* sentinel, or the synchronous start of every claim's callback, each up to
\* its await of checkSmartCache.
ExtractReturns(out) ==
    /\ pc = "extracting"
    /\ extractCalls' = complete(extractCalls, Returned(out))
    /\ IF noClaimsFound(out.claims)
       THEN /\ outcome' = Returns(<<NoClaimsFoundResult(text)>>)
            /\ pc' = "done"
            /\ UNCHANGED <<extractedClaimStrings, claimPc, loc, all, claimCalls>>
       ELSE IF ~IsDefined(out.claims)
       THEN \* undefined.map(...) throws inside the try block
            /\ outcome' = topLevelCatch(TypeErrorMapOfUndefined, text)
            /\ pc' = "done"
            /\ UNCHANGED <<extractedClaimStrings, claimPc, loc, all, claimCalls>>
       ELSE LET cs == Get(out.claims)
                n == Len(cs) IN
            \E tick \in Ticks(n) :
                /\ extractedClaimStrings' = cs
                /\ claimPc' = [i \in 1..n |-> "cache"]
                /\ loc' = [i \in 1..n |-> InitialLocals(claimIdOf(nowsOf(n, tick)[i], i - 1))]
                /\ claimCalls' = [i \in 1..n |->
                                    <<Call("checkSmartCache", [claimText |-> cs[i]])>>]
                /\ all' = [values |-> [i \in 1..n |-> Undefined], rejected |-> Undefined]
                /\ pc' = "awaitAll"
                /\ UNCHANGED outcome
    /\ UNCHANGED <<text, previous, search>>

\* extractClaims throws: the top-level catch (actions.ts:329-341).
ExtractThrows(error) ==
    /\ pc = "extracting"
    /\ extractCalls' = complete(extractCalls, Threw(Some(error)))
    /\ outcome' = topLevelCatch(error, text)
    /\ pc' = "done"
    /\ UNCHANGED <<text, extractedClaimStrings, claimPc, loc, all, claimCalls, previous, search>>

\* The call claim i awaits ended with `result`, and its callback issues the
\* next call and suspends on it.
issue(i, result, stage, call) ==
    /\ claimPc' = [claimPc EXCEPT ![i] = stage]
    /\ claimCalls' = [claimCalls EXCEPT ![i] = Append(complete(@, result), call)]
    /\ UNCHANGED all

\* The call claim i awaits ended with `result`, and its callback ends: its
\* promise settles.
settle(i, result, settled) ==
    /\ claimPc' = [claimPc EXCEPT ![i] = "done"]
    /\ claimCalls' = [claimCalls EXCEPT ![i] = complete(@, result)]
    /\ all' = promiseAllSettle(all, i, settled)

\* checkSmartCache resolves (actions.ts:178-205): a hit ends the pipeline
\* with the re-stamped cached result; a miss starts quality evaluation.
CacheGateReturns(i) ==
    /\ i \in Claims
    /\ claimPc[i] = "cache"
    /\ LET claimText == extractedClaimStrings[i]
           cachedResult == checkSmartCache(claimText) IN
       IF IsDefined(cachedResult)
       THEN settle(i, Returned(cachedResult),
                   Fulfilled([Get(cachedResult) EXCEPT
                                !.id = loc[i].claimId,
                                !.isProcessing = FALSE,
                                !.originalTextContext = Some(text)]))
       ELSE issue(i, Returned(cachedResult), "quality",
                  Call("evaluateClaimQuality",
                       [claimText |-> claimText, originalText |-> Some(text)]))
    /\ UNCHANGED <<pc, text, extractedClaimStrings, loc, extractCalls, outcome, previous, search>>

\* A faulty variant of reasonerCall that leaves maxIterations to the schema's
\* default of 3 (sub-claim-reasoning.ts:17).
reasonerCallDefaultIterations(claimText) ==
    Call("subClaimReasoning", [claim |-> claimText, maxIterations |-> 3])

\* The reasoner call that follows quality evaluation (actions.ts:216).
reasonerCall(claimText) ==
    Call("subClaimReasoning", [claim |-> claimText, maxIterations |-> PrimaryMaxIterations])

\* The arguments of the call claim i awaits.
awaitedArgs(i) == claimCalls[i][Len(claimCalls[i])].args

\* A faulty variant of QualityReturns in which claimQuality is one binding
\* shared by the callbacks (declared outside the map callback): the
\* assignment lands in the first pipeline's locals.
QualityReturnsShared(i, output) ==
    /\ i \in Claims
    /\ claimPc[i] = "quality"
    /\ LET quality == evaluateClaimQualityFlow(awaitedArgs(i), output) IN
       /\ loc' = [loc EXCEPT ![1] = afterQualityReturn(@, quality)]
       /\ issue(i, Returned(quality), "reason", reasonerCall(extractedClaimStrings[i]))
    /\ UNCHANGED <<pc, text, extractedClaimStrings, extractCalls, outcome, previous, search>>

\* evaluateClaimQuality resolves (actions.ts:205, 216).
QualityReturns(i, output) ==
    /\ i \in Claims
    /\ claimPc[i] = "quality"
    /\ LET quality == evaluateClaimQualityFlow(awaitedArgs(i), output) IN
       /\ loc' = [loc EXCEPT ![i] = afterQualityReturn(@, quality)]
       /\ issue(i, Returned(quality), "reason", reasonerCall(extractedClaimStrings[i]))
    /\ UNCHANGED <<pc, text, extractedClaimStrings, extractCalls, outcome, previous, search>>

\* evaluateClaimQuality throws (actions.ts:206-216); the error is only logged.
QualityThrows(i) ==
    /\ i \in Claims
    /\ claimPc[i] = "quality"
    /\ loc' = [loc EXCEPT ![i] = qualityCatch(@)]
    /\ issue(i, Threw(Undefined), "reason", reasonerCall(extractedClaimStrings[i]))
    /\ UNCHANGED <<pc, text, extractedClaimStrings, extractCalls, outcome, previous, search>>

\* subClaimReasoning resolves (actions.ts:216-226).
ReasonerReturns(i, output) ==
    /\ i \in Claims
    /\ claimPc[i] = "reason"
    /\ LET subClaimResult == subClaimReasoningFlow(awaitedArgs(i), output) IN
       /\ loc' = [loc EXCEPT ![i] = afterReasonerReturn(@, subClaimResult)]
       /\ issue(i, Returned(subClaimResult), "trust",
                Call("analyzeTrustChain", [claimText |-> extractedClaimStrings[i]]))
    /\ UNCHANGED <<pc, text, extractedClaimStrings, extractCalls, outcome, previous, search>>

\* subClaimReasoning throws: the pipeline's catch (actions.ts:311-325).
ReasonerThrows(i, error) ==
    /\ i \in Claims
    /\ claimPc[i] = "reason"
    /\ settle(i, Threw(Some(error)),
              claimCatch(loc[i], extractedClaimStrings[i], error, text))
    /\ UNCHANGED <<pc, text, extractedClaimStrings, loc, extractCalls, outcome, previous, search>>

\* The synthesizer call that follows trust analysis (actions.ts:268-291).
explanationCall(l, claimText) ==
    Call("generateExplanation",
         [claim |-> claimText,
          evidence |-> evidenceForExplanation(l, claimText),
          verdict |-> Get(l.overallVerdict)])

\* analyzeTrustChain resolves (actions.ts:224-291).
TrustReturns(i, trustChainResponse) ==
    /\ i \in Claims
    /\ claimPc[i] = "trust"
    /\ loc' = [loc EXCEPT ![i] = afterTrustReturn(@, trustChainResponse)]
    /\ issue(i, Returned(trustChainResponse), "explain",
             explanationCall(loc'[i], extractedClaimStrings[i]))
    /\ UNCHANGED <<pc, text, extractedClaimStrings, extractCalls, outcome, previous, search>>

\* analyzeTrustChain throws (actions.ts:251-291); the error is only logged.
TrustThrows(i) ==
    /\ i \in Claims
    /\ claimPc[i] = "trust"
    /\ loc' = [loc EXCEPT ![i] = trustCatch(@)]
    /\ issue(i, Threw(Undefined), "explain",
             explanationCall(loc'[i], extractedClaimStrings[i]))
    /\ UNCHANGED <<pc, text, extractedClaimStrings, extractCalls, outcome, previous, search>>

\* generateExplanation resolves (actions.ts:287-310).
ExplanationReturns(i, output) ==
    /\ i \in Claims
    /\ claimPc[i] = "explain"
    /\ LET detailedExplanationResult == generateExplanationFlow(awaitedArgs(i), output) IN
       /\ loc' = [loc EXCEPT ![i] = afterExplanationReturn(@, detailedExplanationResult)]
       /\ settle(i, Returned(detailedExplanationResult),
                 Fulfilled(ClaimResult(loc'[i], extractedClaimStrings[i], text)))
    /\ UNCHANGED <<pc, text, extractedClaimStrings, extractCalls, outcome, previous, search>>

\* generateExplanation throws (actions.ts:293-310); the error is only logged.
ExplanationThrows(i) ==
    /\ i \in Claims
    /\ claimPc[i] = "explain"
    /\ loc' = [loc EXCEPT ![i] = explanationCatch(@)]
    /\ settle(i, Threw(Undefined),
              Fulfilled(ClaimResult(loc'[i], extractedClaimStrings[i], text)))
    /\ UNCHANGED <<pc, text, extractedClaimStrings, extractCalls, outcome, previous, search>>

\* A faulty variant of JoinAll that resumes at the first fulfilled promise, as
\* Promise.any would, with the values fulfilled so far.
JoinAllAtFirstFulfilled ==
    /\ pc = "awaitAll"
    /\ \E i \in 1..Len(all.values) : IsDefined(all.values[i])
    /\ outcome' = Returns(LET done == SelectSeq(all.values, IsDefined) IN
                          [k \in 1..Len(done) |-> Get(done[k])])
    /\ pc' = "done"
    /\ UNCHANGED <<text, extractedClaimStrings, claimPc, loc, all, extractCalls, claimCalls, previous, search>>

\* await Promise.all(...) resumes (actions.ts:173, 328-341): with the values
\* in index order once every promise is fulfilled, or in the top-level catch
\* at the first rejection.
JoinAll ==
    /\ pc = "awaitAll"
    /\ \/ IsDefined(all.rejected)
       \/ \A i \in 1..Len(all.values) : IsDefined(all.values[i])
    /\ outcome' = IF IsDefined(all.rejected)
                  THEN topLevelCatch(Get(all.rejected), text)
                  ELSE Returns([i \in 1..Len(all.values) |-> Get(all.values[i])])
    /\ pc' = "done"
    /\ UNCHANGED <<text, extractedClaimStrings, claimPc, loc, all, extractCalls, claimCalls, previous, search>>

Next ==
    \/ \E t \in Texts : Invoke(t)
    \/ \E out \in ExtractOutputs : ExtractReturns(out)
    \/ \E error \in Thrown : ExtractThrows(error)
    \/ \E i \in 1..(MaxClaims + 1) : CacheGateReturns(i)
    \/ \E i \in 1..(MaxClaims + 1), output \in QualityModelOutputs : QualityReturns(i, output)
    \/ \E i \in 1..(MaxClaims + 1) : QualityThrows(i)
    \/ \E i \in 1..(MaxClaims + 1), output \in ReasonerModelOutputs : ReasonerReturns(i, output)
    \/ \E i \in 1..(MaxClaims + 1), error \in Thrown : ReasonerThrows(i, error)
    \/ \E i \in 1..(MaxClaims + 1), t \in TrustOutputs : TrustReturns(i, t)
    \/ \E i \in 1..(MaxClaims + 1) : TrustThrows(i)
    \/ \E i \in 1..(MaxClaims + 1), output \in ExplanationModelOutputs : ExplanationReturns(i, output)
    \/ \E i \in 1..(MaxClaims + 1) : ExplanationThrows(i)
    \/ JoinAll

Spec == Init /\ [][Next]_vars

\* One outcome for each way a collaborator call can end: one thrown value,
\* one reasoner output, one analyzer output.
OneThrown == { e \in Thrown : e.instanceofError }
OneReasonerOutput == { o \in ReasonerModelOutputs : Get(o).overallVerdict = "contradicted" }
OneTrustOutput == { t \in TrustOutputs : t.trustScore > 0 }

\* ------------------------------------------------- sub-claim expansion
\* The step between the primary reasoner call and the main trust analysis
\* in which the candidate sub-claims of a low-confidence verdict are
\* verified one by one.  The orchestrator code of this step is not among
\* the source files; it is modelled from the specification (section 4.7,
\* step 4, and section 5), with the collaborators as declared in
\* sub-claim-reasoning.ts and trust-chain-analysis.ts.

\* The largest number of candidate sub-claims the reasoner returns.
MaxSubClaims == 2

\* The confidence (in hundredths) below which candidates are expanded.
ExpansionThreshold == 85

\* maxIterations of the reasoner call for a sub-claim.
SubClaimMaxIterations == 1

\* The candidate sub-claims, in the order the reasoner lists them.
SubClaimPool == <<"sub-claim A", "sub-claim B", "sub-claim C", "sub-claim D">>

\* What the reasoning model yields for the main claim: no confidence, one
\* just below and one at the threshold, each with no candidate list, an
\* empty one, or one to MaxSubClaims candidates.
ExpansionReasonerOutputs ==
    { Some([overallVerdict |-> "contradicted", reasoning |-> <<"A sub-claim is refuted.">>,
            verdictConfidence |-> c, nuanceDescription |-> Undefined,
            subClaimsForFurtherVerification |-> s]) :
        c \in {Undefined, Some(ExpansionThreshold - 1), Some(ExpansionThreshold)},
        s \in {Undefined} \cup { Some(SubSeq(SubClaimPool, 1, k)) : k \in 0..MaxSubClaims } }

\* What the reasoning model yields for a sub-claim.
SubClaimReasonerOutputs ==
    { Some([overallVerdict |-> "supported", reasoning |-> <<"The sub-claim holds.">>,
            verdictConfidence |-> Some(90), nuanceDescription |-> Undefined,
            subClaimsForFurtherVerification |-> Undefined]) }

\* A faulty variant of expands that also expands at the threshold itself.
expandsAtThreshold(subClaimResult) ==
    /\ IsDefined(subClaimResult.subClaimsForFurtherVerification)
    /\ Len(Get(subClaimResult.subClaimsForFurtherVerification)) > 0
    /\ \/ ~IsDefined(subClaimResult.verdictConfidence)
       \/ Get(subClaimResult.verdictConfidence) <= ExpansionThreshold

\* The branch: candidates exist and the confidence is undefined or below
\* the threshold.
expands(subClaimResult) ==
    /\ IsDefined(subClaimResult.subClaimsForFurtherVerification)
    /\ Len(Get(subClaimResult.subClaimsForFurtherVerification)) > 0
    /\ \/ ~IsDefined(subClaimResult.verdictConfidence)
       \/ Get(subClaimResult.verdictConfidence) < ExpansionThreshold

\* The locals of the expansion: the candidates to verify, how many are
\* dealt with, the reasoning outcome of the one under way, and the blocks
\* appended to the evidence bundle so far.
withExpansion(l, subClaimResult) ==
    l @@ [subClaims |-> IF expands(subClaimResult)
                        THEN Get(subClaimResult.subClaimsForFurtherVerification) ELSE <<>>,
          subIndex |-> 0,
          subResult |-> Undefined,
          subClaimEvidence |-> <<>>]

subReasonerCall(subClaimText) ==
    Call("subClaimReasoning", [claim |-> subClaimText, maxIterations |-> SubClaimMaxIterations])

subTrustCall(subClaimText) == Call("analyzeTrustChain", [claimText |-> subClaimText])

\* The candidate whose verification is under way.
currentSubClaim(l) == l.subClaims[l.subIndex + 1]

\* The block appended for a verified sub-claim: verdict, confidence,
\* reasoning, trust score, query used, top sources.
subClaimBlock(l, trustChainResponse) ==
    <<"\nSub-claim: \"", currentSubClaim(l), "\"\n">>
        \o (IF IsDefined(l.subResult)
            THEN <<"Verdict: ", Get(l.subResult).overallVerdict, " (Confidence: ">>
                    \o toFixed2OrNA(Get(l.subResult).verdictConfidence)
                    \o <<").\nReasoning: ">> \o Get(l.subResult).reasoning \o <<"\n">>
            ELSE <<>>)
        \o <<"Trust Score: ">> \o toFixed2(trustChainResponse.trustScore)
        \o (IF truthy(trustChainResponse.generatedSearchQuery)
            THEN <<"\nQuery: ">> \o Get(trustChainResponse.generatedSearchQuery)
            ELSE <<>>)
        \o <<"\nTop Sources: ">>
        \o (IF IsDefined(trustChainResponse.analyzedSources)
            THEN joinTitles(firstTwo(Get(trustChainResponse.analyzedSources)))
            ELSE <<>>)
        \o <<"\n">>

\* The inline note appended when a call for a sub-claim throws.
subClaimErrorNote(l, stage) ==
    <<"\nError during ", stage, " of sub-claim \"", currentSubClaim(l), "\"\n">>

\* The evidence bundle handed to the synthesizer: claim, quality summary,
\* reasoning summary, sub-claim blocks, trust findings.
evidenceBundle(l, claimText) ==
    <<"Claim: \"", claimText, "\"\n">>
        \o qualityEvidence(l) \o reasoningEvidence(l) \o l.subClaimEvidence \o trustEvidence(l)

\* The callback goes on after a sub-claim is dealt with (or when there is
\* none): with the reasoner call for the next candidate, or, after the last,
\* with the trust analysis of the main claim.
continueExpansion(i, result, l) ==
    IF l.subIndex < Len(l.subClaims)
    THEN issue(i, result, "subReason", subReasonerCall(l.subClaims[l.subIndex + 1]))
    ELSE issue(i, result, "trust",
               Call("analyzeTrustChain", [claimText |-> extractedClaimStrings[i]]))

\* The primary reasoner call resolves: its outcome is recorded as in
\* actions.ts:217-220, then the branch is taken.
ReasonerReturnsThenBranch(i, output) ==
    /\ i \in Claims
    /\ claimPc[i] = "reason"
    /\ LET subClaimResult == subClaimReasoningFlow(awaitedArgs(i), output)
           l == withExpansion(afterReasonerReturn(loc[i], subClaimResult), subClaimResult) IN
       /\ loc' = [loc EXCEPT ![i] = l]
       /\ continueExpansion(i, Returned(subClaimResult), l)
    /\ UNCHANGED <<pc, text, extractedClaimStrings, extractCalls, outcome, previous, search>>

\* The reasoner call for a sub-claim resolves: the trust analyzer is called
\* for the same sub-claim.
SubReasonerReturns(i, output) ==
    /\ i \in Claims
    /\ claimPc[i] = "subReason"
    /\ LET subResult == subClaimReasoningFlow(awaitedArgs(i), output) IN
       /\ loc' = [loc EXCEPT ![i].subResult = Some(subResult)]
       /\ issue(i, Returned(subResult), "subTrust", subTrustCall(currentSubClaim(loc[i])))
    /\ UNCHANGED <<pc, text, extractedClaimStrings, extractCalls, outcome, previous, search>>

\* The reasoner call for a sub-claim throws: the error is caught and noted
\* in the bundle.  The specification leaves open whether the sub-claim's
\* trust analysis is still attempted (one catch for each call) or skipped
\* (one catch for the sub-claim); `skip` chooses.
SubReasonerThrows(i, error, skip) ==
    /\ i \in Claims
    /\ claimPc[i] = "subReason"
    /\ LET noted == [loc[i] EXCEPT !.subResult = Undefined,
                                   !.subClaimEvidence =
                                        @ \o subClaimErrorNote(loc[i], "reasoning")] IN
       IF skip
       THEN LET l == [noted EXCEPT !.subIndex = @ + 1] IN
            /\ loc' = [loc EXCEPT ![i] = l]
            /\ continueExpansion(i, Threw(Some(error)), l)
       ELSE /\ loc' = [loc EXCEPT ![i] = noted]
            /\ issue(i, Threw(Some(error)), "subTrust", subTrustCall(currentSubClaim(loc[i])))
    /\ UNCHANGED <<pc, text, extractedClaimStrings, extractCalls, outcome, previous, search>>

\* The trust analyzer call for a sub-claim resolves: the sub-claim's block
\* is appended and the next candidate is taken up.
SubTrustReturns(i, trustChainResponse) ==
    /\ i \in Claims
    /\ claimPc[i] = "subTrust"
    /\ LET l == [loc[i] EXCEPT !.subClaimEvidence =
                                    @ \o subClaimBlock(loc[i], trustChainResponse),
                               !.subResult = Undefined,
                               !.subIndex = @ + 1] IN
       /\ loc' = [loc EXCEPT ![i] = l]
       /\ continueExpansion(i, Returned(trustChainResponse), l)
    /\ UNCHANGED <<pc, text, extractedClaimStrings, extractCalls, outcome, previous, search>>

\* A faulty variant of SubTrustThrows in which the error of a sub-claim's trust
\* analysis reaches the pipeline's catch block.
SubTrustThrowsEscapes(i, error) ==
    /\ i \in Claims
    /\ claimPc[i] = "subTrust"
    /\ settle(i, Threw(Some(error)),
              claimCatch(loc[i], extractedClaimStrings[i], error, text))
    /\ UNCHANGED <<pc, text, extractedClaimStrings, loc, extractCalls, outcome, previous, search>>

\* The trust analyzer call for a sub-claim throws: the error is caught and
\* noted in the bundle, and the next candidate is taken up.
SubTrustThrows(i, error) ==
    /\ i \in Claims
    /\ claimPc[i] = "subTrust"
    /\ LET l == [loc[i] EXCEPT !.subClaimEvidence =
                                    @ \o subClaimErrorNote(loc[i], "trust analysis"),
                               !.subResult = Undefined,
                               !.subIndex = @ + 1] IN
       /\ loc' = [loc EXCEPT ![i] = l]
       /\ continueExpansion(i, Threw(Some(error)), l)
    /\ UNCHANGED <<pc, text, extractedClaimStrings, extractCalls, outcome, previous, search>>

\* The synthesizer call that follows the main trust analysis, with the
\* whole bundle.
explanationCallWithBundle(l, claimText) ==
    Call("generateExplanation",
         [claim |-> claimText,
          evidence |-> evidenceBundle(l, claimText),
          verdict |-> Get(l.overallVerdict)])

\* The main trust analysis resolves, as in actions.ts:224-250, and the
\* synthesizer is called with the bundle.
TrustReturnsThenBundle(i, trustChainResponse) ==
    /\ i \in Claims
    /\ claimPc[i] = "trust"
    /\ loc' = [loc EXCEPT ![i] = afterTrustReturn(@, trustChainResponse)]
    /\ issue(i, Returned(trustChainResponse), "explain",
             explanationCallWithBundle(loc'[i], extractedClaimStrings[i]))
    /\ UNCHANGED <<pc, text, extractedClaimStrings, extractCalls, outcome, previous, search>>

\* The main trust analysis throws, as in actions.ts:251-265, and the
\* synthesizer is called with the bundle.
TrustThrowsThenBundle(i) ==
    /\ i \in Claims
    /\ claimPc[i] = "trust"
    /\ loc' = [loc EXCEPT ![i] = trustCatch(@)]
    /\ issue(i, Threw(Undefined), "explain",
             explanationCallWithBundle(loc'[i], extractedClaimStrings[i]))
    /\ UNCHANGED <<pc, text, extractedClaimStrings, extractCalls, outcome, previous, search>>

\* The extractor outcome drawn for the expansion: one claim.
OneClaimOutput == { [claims |-> Some(<<ClaimPool[1]>>)] }

\* A step of verifyClaimsInText with sub-claim expansion, for one claim.
NextExpansion ==
    \/ \E t \in Texts : Invoke(t)
    \/ \E out \in OneClaimOutput : ExtractReturns(out)
    \/ CacheGateReturns(1)
    \/ \E output \in QualityModelOutputs : QualityReturns(1, output)
    \/ QualityThrows(1)
    \/ \E output \in ExpansionReasonerOutputs : ReasonerReturnsThenBranch(1, output)
    \/ \E error \in OneThrown : ReasonerThrows(1, error)
    \/ \E output \in SubClaimReasonerOutputs : SubReasonerReturns(1, output)
    \/ \E error \in OneThrown, skip \in BOOLEAN : SubReasonerThrows(1, error, skip)
    \/ \E t \in OneTrustOutput : SubTrustReturns(1, t)
    \/ \E error \in OneThrown : SubTrustThrows(1, error)
    \/ \E t \in OneTrustOutput : TrustReturnsThenBundle(1, t)
    \/ TrustThrowsThenBundle(1)
    \/ \E output \in ExplanationModelOutputs : ExplanationReturns(1, output)
    \/ ExplanationThrows(1)
    \/ JoinAll

SpecExpansion == Init /\ [][NextExpansion]_vars

\* ------------------------------------------------------------ fairness
\* The call of extractClaims completes: it returns or it throws.
ExtractCompletes ==
    \/ \E out \in ExtractOutputs : ExtractReturns(out)
    \/ \E error \in OneThrown : ExtractThrows(error)

\* The collaborator call that claim i's pipeline awaits completes.
CallCompletes(i) ==
    \/ CacheGateReturns(i)
    \/ \E output \in QualityModelOutputs : QualityReturns(i, output)
    \/ QualityThrows(i)
    \/ \E output \in OneReasonerOutput : ReasonerReturns(i, output)
    \/ \E error \in OneThrown : ReasonerThrows(i, error)
    \/ \E t \in OneTrustOutput : TrustReturns(i, t)
    \/ TrustThrows(i)
    \/ \E output \in ExplanationModelOutputs : ExplanationReturns(i, output)
    \/ ExplanationThrows(i)

\* A step of verifyClaimsInText, with one outcome for each way a call ends.
NextFair ==
    \/ \E t \in Texts : Invoke(t)
    \/ ExtractCompletes
    \/ \E i \in 1..(MaxClaims + 1) : CallCompletes(i)
    \/ JoinAll

\* Every collaborator call that is awaited eventually completes, and the
\* runtime resumes verifyClaimsInText once the Promise.all it awaits has
\* settled.
FairSpec ==
    /\ Init /\ [][NextFair]_vars
    /\ WF_vars(ExtractCompletes)
    /\ \A i \in 1..(MaxClaims + 1) : WF_vars(CallCompletes(i))
    /\ WF_vars(JoinAll)

\* ------------------------------------------------- two calls in a row
\* The caller submits the same text again once the first call has ended
\* (page.tsx:153): the first call is kept for comparison and the second runs
\* verifyClaimsInText up to its first await (actions.ts:153-159).
CallAgain ==
    /\ pc = "done"
    /\ ~IsDefined(previous)
    /\ previous' = Some([text |-> text, extractCalls |-> extractCalls,
                         claimCalls |-> claimCalls, outcome |-> outcome])
    /\ IF isBlank(text)
       THEN /\ outcome' = blankTextReturn(text)
            /\ pc' = "done"
            /\ extractCalls' = <<>>
       ELSE /\ extractCalls' = <<Call("extractClaims", [text |-> text])>>
            /\ pc' = "extracting"
            /\ outcome' = Pending
    /\ extractedClaimStrings' = <<>>
    /\ claimPc' = <<>>
    /\ loc' = <<>>
    /\ all' = [values |-> <<>>, rejected |-> Undefined]
    /\ claimCalls' = <<>>
    /\ UNCHANGED <<text, search>>

\* The completed calls among the given ones.
completedOf(calls) == { calls[k] : k \in {j \in 1..Len(calls) : IsDefined(calls[j].result)} }

\* Every collaborator call of a call of verifyClaimsInText that has completed.
completedCalls(extract, perClaim) ==
    completedOf(extract) \cup UNION { completedOf(perClaim[i]) : i \in DOMAIN perClaim }

\* The collaborators are deterministic: two completed calls of the same
\* collaborator with the same arguments, in this call or the one before,
\* ended the same way.
Deterministic ==
    LET calls == completedCalls(extractCalls, claimCalls)
                    \cup (IF IsDefined(previous)
                          THEN completedCalls(Get(previous).extractCalls, Get(previous).claimCalls)
                          ELSE {})
    IN \A c, d \in calls : (c.fn = d.fn /\ c.args = d.args) => c.result = d.result

\* The extractor outcomes drawn when two calls are compared.
TwiceExtractOutputs ==
    { [claims |-> Some(<<ClaimPool[1], ClaimPool[2]>>)], [claims |-> Some(<<>>)] }

\* A step of either call; the collaborators stay deterministic.
NextTwice ==
    \/ \E t \in Texts : Invoke(t) /\ Deterministic'
    \/ \E out \in TwiceExtractOutputs : ExtractReturns(out) /\ Deterministic'
    \/ \E error \in OneThrown : ExtractThrows(error) /\ Deterministic'
    \/ \E i \in 1..2 : CacheGateReturns(i) /\ Deterministic'
    \/ \E i \in 1..2, output \in QualityModelOutputs :
            QualityReturns(i, output) /\ Deterministic'
    \/ \E i \in 1..2 : QualityThrows(i) /\ Deterministic'
    \/ \E i \in 1..2, output \in OneReasonerOutput :
            ReasonerReturns(i, output) /\ Deterministic'
    \/ \E i \in 1..2, error \in OneThrown : ReasonerThrows(i, error) /\ Deterministic'
    \/ \E i \in 1..2, t \in OneTrustOutput : TrustReturns(i, t) /\ Deterministic'
    \/ \E i \in 1..2 : TrustThrows(i) /\ Deterministic'
    \/ \E i \in 1..2, output \in ExplanationModelOutputs :
            ExplanationReturns(i, output) /\ Deterministic'
    \/ \E i \in 1..2 : ExplanationThrows(i) /\ Deterministic'
    \/ JoinAll
    \/ CallAgain

SpecTwice == Init /\ [][NextTwice]_vars

\* ------------------------------------------- a model that yields no output
\* The prompt of a flow resolves without an output: the flow sees
\* `output` null and returns its own default instead of throwing
\* (evaluate-claim-quality flow :71-82, sub-claim-reasoning.ts:94-103,
\* ai-explanation.ts:86-90).
NoOutput == Undefined

QualityOutcomes == QualityModelOutputs \cup {NoOutput}
ReasonerOutcomes == OneReasonerOutput \cup {NoOutput}
ExplanationOutcomes == ExplanationModelOutputs \cup {NoOutput}

\* A step of verifyClaimsInText in which the model behind a flow may also
\* yield no output.
NextNoOutput ==
    \/ \E t \in Texts : Invoke(t)
    \/ \E out \in ExtractOutputs : ExtractReturns(out)
    \/ \E error \in OneThrown : ExtractThrows(error)
    \/ \E i \in 1..(MaxClaims + 1) : CacheGateReturns(i)
    \/ \E i \in 1..(MaxClaims + 1), output \in QualityOutcomes : QualityReturns(i, output)
    \/ \E i \in 1..(MaxClaims + 1) : QualityThrows(i)
    \/ \E i \in 1..(MaxClaims + 1), output \in ReasonerOutcomes : ReasonerReturns(i, output)
    \/ \E i \in 1..(MaxClaims + 1), error \in OneThrown : ReasonerThrows(i, error)
    \/ \E i \in 1..(MaxClaims + 1), t \in OneTrustOutput : TrustReturns(i, t)
    \/ \E i \in 1..(MaxClaims + 1) : TrustThrows(i)
    \/ \E i \in 1..(MaxClaims + 1), output \in ExplanationOutcomes :
            ExplanationReturns(i, output)
    \/ \E i \in 1..(MaxClaims + 1) : ExplanationThrows(i)
    \/ JoinAll

SpecNoOutput == Init /\ [][NextNoOutput]_vars

\* ------------------------------------------- inside the trust analyzer
\* trustChainAnalysisFlow (trust-chain-analysis.ts:654-696), the body of
\* analyzeTrustChain, in its two awaits: the query generation prompt, then
\* the analysis prompt.  While claim i's pipeline awaits analyzeTrustChain,
\* claimPc[i] is "trust" during the first await and "trustPrompt" during
\* the second, and the flow's bindings and calls extend loc[i].

\* What the query generation prompt resolves to: no output, or one to three
\* queries (an empty list, which the schema forbids, is still tested by the
\* flow).
QueryGenOutputs ==
    { NoOutput,
      Some([queries |-> <<>>]),
      Some([queries |-> << <<"query one">> >>]),
      Some([queries |-> << <<"query one">>, <<"query two">>, <<"query three">> >>]) }

\* What the analysis prompt yields when it yields an output.
AnalysisPromptOutputs ==
    { Some([trustScore |-> 90, reasoning |-> <<"Two encyclopedic abstracts agree.">>,
            analyzedSources |-> Some(<< [title |-> "Abstract A", link |-> "https://a.example",
                                         snippet |-> "snippet A", type |-> Some("Abstract")],
                                        [title |-> "Topic B", link |-> "https://b.example",
                                         snippet |-> "snippet B", type |-> Undefined] >>),
            generatedSearchQuery |-> Undefined]),
      Some([trustScore |-> 40, reasoning |-> <<"Nothing specific was found.">>,
            analyzedSources |-> Undefined,
            generatedSearchQuery |-> Some(<<"echoed query">>)]) }

\* A faulty variant of primarySearchQueryOf that takes the last generated
\* query.
primarySearchQueryLast(input, queryGenResult) ==
    IF /\ queryGenResult.kind = "return"
       /\ IsDefined(Get(queryGenResult.value))
       /\ Len(Get(Get(queryGenResult.value)).queries) > 0
    THEN LET queries == Get(Get(queryGenResult.value)).queries IN queries[Len(queries)]
    ELSE <<input.claimText>>

\* primarySearchQuery after step 1 (trust-chain-analysis.ts:662-672): the
\* claim text unless the prompt returned at least one query.
primarySearchQueryOf(input, queryGenResult) ==
    IF /\ queryGenResult.kind = "return"
       /\ IsDefined(Get(queryGenResult.value))
       /\ Len(Get(Get(queryGenResult.value)).queries) > 0
    THEN Get(Get(queryGenResult.value)).queries[1]
    ELSE <<input.claimText>>

\* The call of the analysis prompt (trust-chain-analysis.ts:675-678).
analysisPromptCall(input, primarySearchQuery) ==
    Call("trustChainAnalysisPrompt",
         [claimText |-> input.claimText, searchQueryUsed |-> primarySearchQuery])

\* What the flow returns once the analysis prompt resolved
\* (trust-chain-analysis.ts:680-695).
trustChainAnalysisFlowResult(primarySearchQuery, output) ==
    IF ~IsDefined(output)
    THEN [trustScore |-> 0,
          reasoning |-> <<"Trust chain analysis failed to produce an output. The LLM might have encountered an issue. No sources could be analyzed, and no trust chain could be simulated.">>,
          analyzedSources |-> Some(<<>>),
          generatedSearchQuery |-> Some(primarySearchQuery)]
    ELSE LET o == Get(output) IN
         [o EXCEPT
            !.analyzedSources =
                IF IsDefined(@)
                THEN Some([k \in 1..Len(Get(@)) |->
                            [Get(@)[k] EXCEPT !.type =
                                IF IsDefined(@) /\ Get(@) # "" THEN @ ELSE Some("Unknown")]])
                ELSE Some(<<>>),
            !.generatedSearchQuery = IF truthy(@) THEN @ ELSE Some(primarySearchQuery)]

\* The flow's bindings after step 1, kept with the pipeline's locals.
withFlow(l, primarySearchQuery, queryGenResult, input) ==
    l @@ [primarySearchQuery |-> primarySearchQuery,
          flowCalls |-> << [Call("generateSearchQueriesPrompt", [claimText |-> input.claimText])
                                EXCEPT !.result = Some(queryGenResult)],
                           analysisPromptCall(input, primarySearchQuery) >>]

\* The query generation prompt completes, by returning or by throwing
\* (trust-chain-analysis.ts:664-678): the flow goes on to the analysis prompt.
QueryGenCompletes(i, queryGenResult) ==
    /\ i \in Claims
    /\ claimPc[i] = "trust"
    /\ LET input == awaitedArgs(i) IN
       loc' = [loc EXCEPT ![i] =
                 withFlow(@, primarySearchQueryOf(input, queryGenResult), queryGenResult, input)]
    /\ claimPc' = [claimPc EXCEPT ![i] = "trustPrompt"]
    /\ UNCHANGED <<pc, text, extractedClaimStrings, all, extractCalls, claimCalls, outcome,
                   previous, search>>

\* The analysis prompt resolves: the flow returns, and the pipeline goes on
\* as after any return of analyzeTrustChain (actions.ts:224-291).
AnalysisPromptReturns(i, output) ==
    /\ i \in Claims
    /\ claimPc[i] = "trustPrompt"
    /\ LET trustChainResponse == trustChainAnalysisFlowResult(loc[i].primarySearchQuery, output)
           l == [loc[i] EXCEPT !.flowCalls = complete(@, Returned(output))] IN
       /\ loc' = [loc EXCEPT ![i] = afterTrustReturn(l, trustChainResponse)]
       /\ issue(i, Returned(trustChainResponse), "explain",
                explanationCall(loc'[i], extractedClaimStrings[i]))
    /\ UNCHANGED <<pc, text, extractedClaimStrings, extractCalls, outcome, previous, search>>

\* The analysis prompt throws: nothing in the flow catches it, so
\* analyzeTrustChain throws and the pipeline's trust catch runs
\* (actions.ts:251-291).
AnalysisPromptThrows(i, error) ==
    /\ i \in Claims
    /\ claimPc[i] = "trustPrompt"
    /\ LET l == [loc[i] EXCEPT !.flowCalls = complete(@, Threw(Some(error)))] IN
       loc' = [loc EXCEPT ![i] = trustCatch(l)]
    /\ issue(i, Threw(Some(error)), "explain",
             explanationCall(loc'[i], extractedClaimStrings[i]))
    /\ UNCHANGED <<pc, text, extractedClaimStrings, extractCalls, outcome, previous, search>>

\* A step of verifyClaimsInText with the trust analyzer's steps in place of
\* its outcome; of the stages around the analyzer, only the reasoner may throw.
NextTrustFlow ==
    \/ \E t \in Texts : Invoke(t)
    \/ \E out \in ExtractOutputs : ExtractReturns(out)
    \/ \E error \in OneThrown : ExtractThrows(error)
    \/ \E i \in 1..(MaxClaims + 1) : CacheGateReturns(i)
    \/ \E i \in 1..(MaxClaims + 1), output \in QualityModelOutputs : QualityReturns(i, output)
    \/ \E i \in 1..(MaxClaims + 1), output \in OneReasonerOutput : ReasonerReturns(i, output)
    \/ \E i \in 1..(MaxClaims + 1), error \in OneThrown : ReasonerThrows(i, error)
    \/ \E i \in 1..(MaxClaims + 1), output \in QueryGenOutputs :
            QueryGenCompletes(i, Returned(output))
    \/ \E i \in 1..(MaxClaims + 1), error \in OneThrown :
            QueryGenCompletes(i, Threw(Some(error)))
    \/ \E i \in 1..(MaxClaims + 1), output \in AnalysisPromptOutputs \cup {NoOutput} :
            AnalysisPromptReturns(i, output)
    \/ \E i \in 1..(MaxClaims + 1), error \in OneThrown : AnalysisPromptThrows(i, error)
    \/ \E i \in 1..(MaxClaims + 1), output \in ExplanationModelOutputs :
            ExplanationReturns(i, output)
    \/ JoinAll

SpecTrustFlow == Init /\ [][NextTrustFlow]_vars

\* ---------------------------------------------- a cache gate that may hit
\* The callback's lines after `await checkSmartCache(claimText)`
\* (actions.ts:178-205) for either value the gate's declared type
\* ClaimVerificationResult | null allows.  The stub of this repository
\* only ever resolves to null; the hit is what a cache behind it would add.

\* An earlier result such a cache would hold: of another batch, with its own
\* id and context, found for a similar claim text.
CachedResults ==
    { Some([Result(<<"claim", "1700000000000", "7">>, "The sky is blue today.", "supported",
                   <<"Cached explanation.">>)
              EXCEPT !.isProcessing = TRUE,
                     !.verdictConfidence = Some(90),
                     !.sources = <<MockSource(<<"trust-src", "claim", "1700000000000", "7", "0">>,
                                              "https://a.example", "Abstract A", "snippet A")>>,
                     !.originalTextContext = Some(<<"o", "l", "d">>)]) }

\* A faulty variant of CacheGateResolves that returns the cached result as
\* it was stored.
CacheGateResolvesAsStored(i, cachedResult) ==
    /\ i \in Claims
    /\ claimPc[i] = "cache"
    /\ IF IsDefined(cachedResult)
       THEN settle(i, Returned(cachedResult), Fulfilled(Get(cachedResult)))
       ELSE issue(i, Returned(cachedResult), "quality",
                  Call("evaluateClaimQuality",
                       [claimText |-> extractedClaimStrings[i], originalText |-> Some(text)]))
    /\ UNCHANGED <<pc, text, extractedClaimStrings, loc, extractCalls, outcome, previous, search>>

\* checkSmartCache resolves to cachedResult (actions.ts:178-205).
CacheGateResolves(i, cachedResult) ==
    /\ i \in Claims
    /\ claimPc[i] = "cache"
    /\ IF IsDefined(cachedResult)
       THEN settle(i, Returned(cachedResult),
                   Fulfilled([Get(cachedResult) EXCEPT
                                !.id = loc[i].claimId,
                                !.isProcessing = FALSE,
                                !.originalTextContext = Some(text)]))
       ELSE issue(i, Returned(cachedResult), "quality",
                  Call("evaluateClaimQuality",
                       [claimText |-> extractedClaimStrings[i], originalText |-> Some(text)]))
    /\ UNCHANGED <<pc, text, extractedClaimStrings, loc, extractCalls, outcome, previous, search>>

\* A step of verifyClaimsInText behind a cache gate that may hit; the other
\* stages return.
NextCacheHit ==
    \/ \E t \in Texts : Invoke(t)
    \/ \E out \in ExtractOutputs : ExtractReturns(out)
    \/ \E error \in OneThrown : ExtractThrows(error)
    \/ \E i \in 1..(MaxClaims + 1), cachedResult \in CachedResults \cup {Undefined} :
            CacheGateResolves(i, cachedResult)
    \/ \E i \in 1..(MaxClaims + 1), output \in QualityModelOutputs : QualityReturns(i, output)
    \/ \E i \in 1..(MaxClaims + 1), output \in OneReasonerOutput : ReasonerReturns(i, output)
    \/ \E i \in 1..(MaxClaims + 1), t \in OneTrustOutput : TrustReturns(i, t)
    \/ \E i \in 1..(MaxClaims + 1), output \in ExplanationModelOutputs :
            ExplanationReturns(i, output)
    \/ JoinAll

SpecCacheHit == Init /\ [][NextCacheHit]_vars

\* ------------------------------------------------ the internet search tool
\* internetSearchTool (trust-chain-analysis.ts:472-593): one run of the
\* tool's function for a query, through its two awaits (fetch, then
\* response.json()), kept in `search`.

\* The most topics a response lists.
MaxTopics == 4

\* RelatedTopics.slice(0, 3)  (trust-chain-analysis.ts:515)
TopicsKept == 3

\* A query as UTF-16 code units: a letter, a space, a high and a low
\* surrogate.  The last query ends in a high surrogate without its low one.
Queries == { <<"a", " ", "a">>, <<"a", "hi", "lo">>, <<"a", "hi">> }

\* Every surrogate of the text is half of a pair.
wellFormed(query) ==
    \A k \in 1..Len(query) :
        /\ query[k] = "hi" => (k < Len(query) /\ query[k + 1] = "lo")
        /\ query[k] = "lo" => (k > 1 /\ query[k - 1] = "hi")

\* encodeURIComponent: the percent-encoded text, or no value where it
\* throws a URIError, which it does for a lone surrogate.
encodeURIComponent(query) ==
    IF wellFormed(query)
    THEN Some([k \in 1..Len(query) |->
                CASE query[k] = " " -> "%20"
                  [] query[k] = "hi" -> "%F0%9F"
                  [] query[k] = "lo" -> "%98%80"
                  [] OTHER -> query[k]])
    ELSE Undefined

\* `https://duckduckgo.com/?q=${encodeURIComponent(query)}`, where the
\* encoding does not throw.
ddgLink(query) == <<"https://duckduckgo.com/?q=">> \o Get(encodeURIComponent(query))

\* A result record; its title is missing where the code reads it from a
\* field the response lacks.
SearchResult(title, link, snippet, type) ==
    [title |-> Some(title), link |-> link, snippet |-> snippet, type |-> Some(type)]

\* The topic at position k of RelatedTopics, of one of four shapes: a
\* Result with an anchor, a Result without one beside a Text, a Result
\* that is no string (its .match is no function), and a group of topics
\* without Result.
TopicShapes == {"anchor", "text", "object", "group"}
topicOf(shape, k) ==
    CASE shape = "anchor" ->
            [Result |-> Some([isString |-> TRUE, match |-> Some([href |-> <<"https://topic/", ToString(k)>>,
                                                               title |-> <<"Topic ", ToString(k)>>,
                                                               rest |-> <<"details">>])]),
             FirstURL |-> Some(<<"https://topic/", ToString(k)>>),
             Text |-> Some([head |-> <<"Topic ", ToString(k)>>, tail |-> <<"details">>])]
      [] shape = "text" ->
            [Result |-> Some([isString |-> TRUE, match |-> Undefined]),
             FirstURL |-> Some(<<"https://topic/", ToString(k)>>),
             Text |-> Some([head |-> <<"Topic ", ToString(k)>>, tail |-> <<"details">>])]
      [] shape = "object" ->
            [Result |-> Some([isString |-> FALSE, match |-> Undefined]),
             FirstURL |-> Some(<<"https://topic/", ToString(k)>>),
             Text |-> Undefined]
      [] OTHER ->
            [Result |-> Undefined, FirstURL |-> Undefined, Text |-> Undefined]

\* The lists of at most n topics.
TopicLists(n) ==
    UNION { { [k \in 1..len |-> topicOf(shapes[k], k)] : shapes \in [1..len -> TopicShapes] }
            : len \in 0..n }

\* The definition part of a response: DefinitionSource, Definition and
\* DefinitionURL, the URL being its own, the abstract's, or missing.
DefinitionParts ==
    { [DefinitionSource |-> Undefined, Definition |-> Undefined, DefinitionURL |-> Undefined],
      [DefinitionSource |-> Some("Dictionary"), Definition |-> Some(<<"a definition">>),
       DefinitionURL |-> Some(<<"https://def">>)],
      [DefinitionSource |-> Some("Dictionary"), Definition |-> Some(<<"a definition">>),
       DefinitionURL |-> Some(<<"https://abs">>)],
      [DefinitionSource |-> Some("Dictionary"), Definition |-> Some(<<"a definition">>),
       DefinitionURL |-> Undefined] }

\* What response.json() resolves to: null, or an object with some of the
\* fields the tool reads; RelatedTopics, when present, is an array or not.
AbstractTexts == {Undefined, Some(<<>>), Some(<<"an abstract">>)}
AbstractURLs == {Undefined, Some(<<"https://abs">>)}
Headings == {Undefined, Some(<<"Heading">>)}
Answers == {Undefined, Some(<<"42">>)}
RelatedTopicsValues ==
    {Undefined, Some([isArray |-> FALSE, items |-> <<>>])}
        \cup { Some([isArray |-> TRUE, items |-> items]) : items \in TopicLists(MaxTopics) }
responseData(at, au, h, rt, d, an) ==
    Some([AbstractText |-> at, AbstractURL |-> au, Heading |-> h,
          RelatedTopics |-> rt, Definition |-> d, Answer |-> an])

\* sr => sr.link === link, over the results so far.
someLink(searchResults, link) == \E k \in 1..Len(searchResults) : searchResults[k].link = link

\* What the forEach callback does for one topic
\* (trust-chain-analysis.ts:516-541): the results after it, or a TypeError.
pushTopic(acc, topic) ==
    IF acc.threw THEN acc
    ELSE IF ~(IsDefined(topic.Result) /\ IsDefined(topic.FirstURL)) THEN acc
    ELSE IF ~Get(topic.Result).isString THEN [acc EXCEPT !.threw = TRUE]
    ELSE IF IsDefined(Get(topic.Result).match)
    THEN LET m == Get(Get(topic.Result).match) IN
         IF someLink(acc.searchResults, m.href) THEN acc
         ELSE [acc EXCEPT !.searchResults =
                    Append(@, SearchResult(m.title, m.href, orElse(m.rest, m.title), "RelatedTopic"))]
    ELSE IF IsDefined(topic.Text)
    THEN IF someLink(acc.searchResults, Get(topic.FirstURL)) THEN acc
         ELSE [acc EXCEPT !.searchResults =
                    Append(@, SearchResult(Get(topic.Text).head, Get(topic.FirstURL),
                                           Get(topic.Text).head \o <<" - ">> \o Get(topic.Text).tail,
                                           "RelatedTopic"))]
    ELSE acc

RECURSIVE pushTopics(_, _)
pushTopics(acc, topics) ==
    IF topics = <<>> THEN acc
    ELSE pushTopics(pushTopic(acc, Head(topics)), Tail(topics))

\* data.RelatedTopics.slice(0, 3)  (trust-chain-analysis.ts:515)
keptTopics(items) == SubSeq(items, 1, IF Len(items) < TopicsKept THEN Len(items) ELSE TopicsKept)

\* The lines between `const data = await response.json()` and the end of
\* the try block (trust-chain-analysis.ts:505-569) for the parsed data: the
\* results pushed, and whether a TypeError left the block early.
collect(query, data) ==
    IF ~IsDefined(data) THEN [searchResults |-> <<>>, threw |-> TRUE]
    ELSE
    LET d == Get(data)
        abstract ==
            IF truthy(d.AbstractText)
            THEN << [title |-> IF truthy(d.AbstractURL) THEN d.Heading
                               ELSE Some(<<"Abstract for: ">> \o
                                         (IF truthy(d.Heading) THEN Get(d.Heading) ELSE query)),
                     link |-> IF truthy(d.AbstractURL) THEN Get(d.AbstractURL) ELSE ddgLink(query),
                     snippet |-> Get(d.AbstractText), type |-> Some("Abstract")] >>
            ELSE <<>>
        topics ==
            IF IsDefined(d.RelatedTopics) /\ Get(d.RelatedTopics).isArray
            THEN pushTopics([searchResults |-> abstract, threw |-> FALSE],
                            keptTopics(Get(d.RelatedTopics).items))
            ELSE [searchResults |-> abstract, threw |-> FALSE]
        definition ==
            IF IsDefined(d.Definition.DefinitionSource) /\ truthy(d.Definition.Definition)
               /\ ~(IsDefined(d.Definition.DefinitionURL)
                    /\ someLink(topics.searchResults, Get(d.Definition.DefinitionURL)))
            THEN Append(topics.searchResults,
                        SearchResult(<<"Definition from ", Get(d.Definition.DefinitionSource), ": ">>
                                        \o (IF truthy(d.Heading) THEN Get(d.Heading) ELSE query),
                                     IF truthy(d.Definition.DefinitionURL)
                                     THEN Get(d.Definition.DefinitionURL) ELSE ddgLink(query),
                                     Get(d.Definition.Definition), "Definition"))
            ELSE topics.searchResults
        general ==
            IF definition = <<>> /\ truthy(d.Heading) /\ d.AbstractText = Some(<<>>)
            THEN IF truthy(d.Answer)
                 THEN << SearchResult(Get(d.Heading), ddgLink(query), Get(d.Answer), "Answer") >>
                 ELSE << SearchResult(<<"General result for: ">> \o Get(d.Heading), ddgLink(query),
                                      <<"DuckDuckGo Instant Answer API provided a general result or category.">>,
                                      "General") >>
            ELSE definition
    IN IF topics.threw THEN topics ELSE [searchResults |-> general, threw |-> FALSE]

\* The tool's function returned the list, or threw.
searchReturns(run, searchResults) ==
    [run EXCEPT !.pc = "done", !.searchResults = searchResults, !.outcome = "return"]
searchThrows(run) == [run EXCEPT !.pc = "done", !.outcome = "throw"]

\* The catch block (trust-chain-analysis.ts:572-581): it builds the
\* placeholder's link with encodeURIComponent(query) again.
searchCatch(run, searchResults) ==
    IF IsDefined(encodeURIComponent(run.query))
    THEN searchReturns(run, Append(searchResults,
                                   SearchResult(<<"Search Execution Error">>, ddgLink(run.query),
                                                <<"Could not perform live internet search">>,
                                                "ToolExecutionError")))
    ELSE searchThrows([run EXCEPT !.searchResults = searchResults])

\* The tool is called with a query and runs up to `await fetch(...)`
\* (trust-chain-analysis.ts:484-490); building the URL may already throw.
SearchInvoke(query) ==
    /\ search = NoSearch
    /\ LET run == [pc |-> "fetch", query |-> query, searchResults |-> <<>>,
                   http |-> "none", data |-> Undefined, outcome |-> "pending"] IN
       search' = IF IsDefined(encodeURIComponent(query))
                 THEN run
                 ELSE searchCatch(run, <<>>)
    /\ UNCHANGED <<pc, text, extractedClaimStrings, claimPc, loc, all, extractCalls, claimCalls,
                   outcome, previous>>

\* fetch rejects (a network error): the catch block.
FetchRejects ==
    /\ search.pc = "fetch"
    /\ search' = searchCatch([search EXCEPT !.http = "network error"], search.searchResults)
    /\ UNCHANGED <<pc, text, extractedClaimStrings, claimPc, loc, all, extractCalls, claimCalls,
                   outcome, previous>>

\* fetch resolves (trust-chain-analysis.ts:492-503): a response that is not
\* OK ends the run with a placeholder; an OK one is parsed.
FetchResolves(ok) ==
    /\ search.pc = "fetch"
    /\ search' =
          IF ok THEN [search EXCEPT !.pc = "json", !.http = "ok"]
          ELSE searchReturns([search EXCEPT !.http = "not ok"],
                             Append(search.searchResults,
                                    SearchResult(<<"Search API Error">>, ddgLink(search.query),
                                                 <<"DuckDuckGo API request failed">>, "APIError")))
    /\ UNCHANGED <<pc, text, extractedClaimStrings, claimPc, loc, all, extractCalls, claimCalls,
                   outcome, previous>>

\* response.json() rejects (the body is no JSON): the catch block.
JsonRejects ==
    /\ search.pc = "json"
    /\ search' = searchCatch([search EXCEPT !.http = "parse error"], search.searchResults)
    /\ UNCHANGED <<pc, text, extractedClaimStrings, claimPc, loc, all, extractCalls, claimCalls,
                   outcome, previous>>

\* response.json() resolves (trust-chain-analysis.ts:503-592): the rest of
\* the function runs without suspending.
JsonResolves(data) ==
    /\ search.pc = "json"
    /\ LET run == [search EXCEPT !.data = data]
           collected == collect(search.query, data) IN
       search' =
          IF collected.threw THEN searchCatch(run, collected.searchResults)
          ELSE IF collected.searchResults = <<>>
          THEN searchReturns(run, << SearchResult(<<"No specific results from DuckDuckGo Instant Answer API">>,
                                                  ddgLink(search.query),
                                                  <<"The DuckDuckGo Instant Answer API did not return specific abstracts, definitions, or related topics for this query.">>,
                                                  "NoSpecificResults") >>)
          ELSE searchReturns(run, collected.searchResults)
    /\ UNCHANGED <<pc, text, extractedClaimStrings, claimPc, loc, all, extractCalls, claimCalls,
                   outcome, previous>>

NextSearch ==
    \/ \E query \in Queries : SearchInvoke(query)
    \/ FetchRejects
    \/ \E ok \in BOOLEAN : FetchResolves(ok)
    \/ JsonRejects
    \/ JsonResolves(Undefined)
    \/ /\ search.pc = "json"
       /\ \E at \in AbstractTexts, au \in AbstractURLs, h \in Headings, rt \in RelatedTopicsValues,
             d \in DefinitionParts, an \in Answers :
               JsonResolves(responseData(at, au, h, rt, d, an))

SpecSearch == Init /\ [][NextSearch]_vars

\* ===================================================================
\* Properties of verifyClaimsInText.  They read the recorded calls and the
\* value the call returned, never the operators that produced that value.
\* ===================================================================

\* The source types ClaimCard keeps out of the retrieved evidence
\* (Header.tsx:154).
validSourceTypesToExclude ==
    {"NoSpecificResults", "APIError", "ToolExecutionError", "NoResult", "Error"}

\* Every character of the text is whitespace (the empty text included).
AllWhitespace(t) == \A k \in 1..Len(t) : t[k] \in {" ", "\t", "\n"}

Finished == pc = "done"

ExtractorCalled == Len(extractCalls) = 1
ExtractorResult == Get(extractCalls[1].result)
ExtractorThrew ==
    ExtractorCalled /\ IsDefined(extractCalls[1].result) /\ ExtractorResult.kind = "throw"
ExtractorReturned ==
    ExtractorCalled /\ IsDefined(extractCalls[1].result) /\ ExtractorResult.kind = "return"
ExtractorClaims == Get(ExtractorResult.value).claims
ExtractorReturnedNoClaims ==
    ExtractorReturned /\ (~IsDefined(ExtractorClaims) \/ Get(ExtractorClaims) = <<>>)
ExtractorReturnedClaims ==
    ExtractorReturned /\ IsDefined(ExtractorClaims) /\ Get(ExtractorClaims) # <<>>
ExtractedList == Get(ExtractorClaims)

\* The call of collaborator fn issued for claim i, and how it ended.
callIndex(i, fn) == CHOOSE k \in 1..Len(claimCalls[i]) : claimCalls[i][k].fn = fn
wasCalled(i, fn) == \E k \in 1..Len(claimCalls[i]) : claimCalls[i][k].fn = fn
callResult(i, fn) == Get(claimCalls[i][callIndex(i, fn)].result)
ended(i, fn) == wasCalled(i, fn) /\ IsDefined(claimCalls[i][callIndex(i, fn)].result)
threw(i, fn) == ended(i, fn) /\ callResult(i, fn).kind = "throw"
returned(i, fn) == ended(i, fn) /\ callResult(i, fn).kind = "return"
returnedValue(i, fn) == Get(callResult(i, fn).value)
thrownError(i, fn) == Get(callResult(i, fn).error)

\* The call returned one result per extracted claim.
PerClaimList ==
    /\ Finished
    /\ ExtractorReturnedClaims
    /\ outcome.kind = "return"
    /\ Len(outcome.value) = Len(ExtractedList)

\* The text a thrown value carries: the message of an Error, String(v) of
\* any other value.
textOfThrown(error) == IF error.instanceofError THEN error.message ELSE error.str

\* C1: for a non-empty extracted list, the returned list has the same length
\* and its i-th result carries the i-th extracted claim as claimText,
\* whatever the completion order and whichever pipelines fail.
C1_ResultsFollowExtractionOrder ==
    (Finished /\ ExtractorReturnedClaims) =>
        /\ outcome.kind = "return"
        /\ Len(outcome.value) = Len(ExtractedList)
        /\ \A i \in 1..Len(ExtractedList) : outcome.value[i].claimText = ExtractedList[i]

\* C1 witness: a returned two-claim batch of different claims in which the
\* first pipeline failed and the second did not.
C1_Witness ==
    /\ PerClaimList
    /\ Len(outcome.value) = 2
    /\ outcome.value[1].claimText # outcome.value[2].claimText
    /\ outcome.value[1].status = "error"
    /\ outcome.value[2].status # "error"
    /\ threw(2, "analyzeTrustChain")

\* What claim j's result is when computed from the outcomes of claim j's own
\* collaborator calls alone.
ownLocals(j) ==
    LET l0 == InitialLocals(loc[j].claimId)
        lq == IF threw(j, "evaluateClaimQuality") THEN qualityCatch(l0)
              ELSE afterQualityReturn(l0, returnedValue(j, "evaluateClaimQuality"))
        lr == IF returned(j, "subClaimReasoning")
              THEN afterReasonerReturn(lq, returnedValue(j, "subClaimReasoning")) ELSE lq
        lt == IF ~wasCalled(j, "analyzeTrustChain") THEN lr
              ELSE IF threw(j, "analyzeTrustChain") THEN trustCatch(lr)
              ELSE afterTrustReturn(lr, returnedValue(j, "analyzeTrustChain"))
        lx == IF ~wasCalled(j, "generateExplanation") THEN lt
              ELSE IF threw(j, "generateExplanation") THEN explanationCatch(lt)
              ELSE afterExplanationReturn(lt, returnedValue(j, "generateExplanation"))
    IN lx

ownResult(j) ==
    IF threw(j, "subClaimReasoning")
    THEN ClaimErrorResult(ownLocals(j), ExtractedList[j],
                          thrownError(j, "subClaimReasoning"), text)
    ELSE ClaimResult(ownLocals(j), ExtractedList[j], text)

C3_ErrorOnlyFromReasoner ==
    (Finished /\ ExtractorReturnedClaims) =>
        /\ outcome.kind = "return"
        /\ Len(outcome.value) = Len(ExtractedList)
        /\ \A i \in 1..Len(ExtractedList) :
              /\ outcome.value[i].status = "error" <=> threw(i, "subClaimReasoning")
              /\ returned(i, "subClaimReasoning") =>
                    outcome.value[i].status =
                        returnedValue(i, "subClaimReasoning").overallVerdict

\* C3 witness: quality, trust and explanation all threw for a claim whose
\* reasoner returned 'contradicted', and the result is 'contradicted'.
C3_Witness ==
    /\ PerClaimList
    /\ \E i \in 1..Len(outcome.value) :
          /\ threw(i, "evaluateClaimQuality")
          /\ threw(i, "analyzeTrustChain")
          /\ threw(i, "generateExplanation")
          /\ returned(i, "subClaimReasoning")
          /\ returnedValue(i, "subClaimReasoning").overallVerdict = "contradicted"
          /\ outcome.value[i].status = "contradicted"

\* The statuses of types.ts:3.
ClaimStatuses == {"supported", "contradicted", "neutral", "pending", "error"}

WellFormed(r) ==
    /\ r.id # <<>>
    /\ r.status \in ClaimStatuses
    /\ r.isProcessing = FALSE
    /\ r.explanation # <<>>
    /\ r.status = "error" => IsDefined(r.errorMessage)

\* C4: the call never ends in an exception; when it ends, it returns a list
\* of well-formed results.
C4_NeverThrows ==
    /\ outcome.kind # "throw"
    /\ Finished =>
          /\ outcome.kind = "return"
          /\ \A k \in 1..Len(outcome.value) : WellFormed(outcome.value[k])

\* C4 witness: the extractor threw and the call still returned a list.
C4_Witness ==
    /\ Finished
    /\ ExtractorThrew
    /\ outcome.kind = "return"
    /\ Len(outcome.value) = 1

\* C5 as stated: every call returns a non-empty list.
C5_AlwaysNonEmpty ==
    Finished => (outcome.kind = "return" /\ Len(outcome.value) >= 1)

\* C5 as amended: the returned list is empty exactly when the input text is
\* empty or whitespace-only; every other call returns a non-empty list.
C5_NonEmptyUnlessBlank ==
    Finished =>
        /\ outcome.kind = "return"
        /\ Len(outcome.value) = 0 <=> AllWhitespace(text)

\* C5 witness: the call with the empty text returned the empty list.
C5_Witness ==
    /\ Finished
    /\ text = <<>>
    /\ outcome.kind = "return"
    /\ outcome.value = <<>>

\* C6: for an empty or whitespace-only text the call returns the empty list
\* and invokes no collaborator.
C6_BlankReturnsEmptyWithoutCalls ==
    (pc # "idle" /\ AllWhitespace(text)) =>
        /\ Finished
        /\ outcome.kind = "return"
        /\ outcome.value = <<>>
        /\ extractCalls = <<>>
        /\ claimCalls = <<>>

\* C6 witness: a whitespace-only, non-empty text returned the empty list.
C6_Witness ==
    /\ Finished
    /\ Len(text) > 0
    /\ AllWhitespace(text)
    /\ outcome.value = <<>>
    /\ extractCalls = <<>>

\* C7: when the extractor returns an empty or missing claims list, the call
\* returns exactly the 'no_claims_found' sentinel (neutral, no sources) and
\* issues no per-claim call.
C7_NoClaimsSentinel ==
    ExtractorReturnedNoClaims =>
        /\ Finished
        /\ outcome.kind = "return"
        /\ Len(outcome.value) = 1
        /\ outcome.value[1].id = <<"no_claims_found">>
        /\ outcome.value[1].status = "neutral"
        /\ outcome.value[1].sources = <<>>
        /\ claimCalls = <<>>

\* C7 witness: the extractor returned an object without a claims list.
C7_Witness ==
    /\ Finished
    /\ ExtractorReturned
    /\ ~IsDefined(ExtractorClaims)
    /\ outcome.value[1].id = <<"no_claims_found">>

\* C8: when the extractor throws, the call returns exactly the
\* 'error-general' sentinel (status error, the thrown value's message, no
\* sources) and starts no per-claim pipeline.
C8_ExtractionErrorSentinel ==
    ExtractorThrew =>
        /\ Finished
        /\ outcome.kind = "return"
        /\ Len(outcome.value) = 1
        /\ outcome.value[1].id = <<"error-general">>
        /\ outcome.value[1].status = "error"
        /\ outcome.value[1].errorMessage = Some(textOfThrown(Get(ExtractorResult.error)))
        /\ outcome.value[1].sources = <<>>
        /\ claimCalls = <<>>
        /\ claimPc = <<>>

\* C8 witness: the extractor threw an Error and its message is reported.
C8_Witness ==
    /\ Finished
    /\ ExtractorThrew
    /\ Get(ExtractorResult.error).instanceofError
    /\ outcome.value[1].errorMessage = Some("model call failed")

\* C9: when quality evaluation throws and the reasoner returns, the result
\* is not an error and carries the fixed fallback ratings.
C9_QualityFallback ==
    (Finished /\ ExtractorReturnedClaims) =>
        /\ outcome.kind = "return"
        /\ Len(outcome.value) = Len(ExtractedList)
        /\ \A i \in 1..Len(ExtractedList) :
              (threw(i, "evaluateClaimQuality") /\ returned(i, "subClaimReasoning")) =>
                  /\ outcome.value[i].status # "error"
                  /\ IsDefined(outcome.value[i].claimQualityMetrics)
                  /\ LET q == Get(outcome.value[i].claimQualityMetrics) IN
                        /\ q.atomicity = "low"
                        /\ q.fluency = "poor"
                        /\ q.decontextualization = "low"
                        /\ q.faithfulness = "na"
                        /\ q.focus = "broad"
                        /\ q.checkworthiness = "low"

\* C9 witness: quality threw, the reasoner returned 'supported', and the
\* result carries faithfulness 'na'.
C9_Witness ==
    /\ PerClaimList
    /\ \E i \in 1..Len(outcome.value) :
          /\ threw(i, "evaluateClaimQuality")
          /\ returned(i, "subClaimReasoning")
          /\ outcome.value[i].status = "supported"
          /\ Get(outcome.value[i].claimQualityMetrics).faithfulness = "na"

\* C10 as stated: when the trust analyzer throws (the reasoner having
\* returned), the result is not an error, its trust score is 0, and its
\* sources are exactly one entry carrying an error type tag.
C10_TrustFailureTaggedSource ==
    (Finished /\ ExtractorReturnedClaims) =>
        /\ outcome.kind = "return"
        /\ Len(outcome.value) = Len(ExtractedList)
        /\ \A i \in 1..Len(ExtractedList) :
              threw(i, "analyzeTrustChain") =>
                  /\ outcome.value[i].status # "error"
                  /\ IsDefined(outcome.value[i].trustAnalysis)
                  /\ Get(outcome.value[i].trustAnalysis).score = Some(0)
                  /\ Len(outcome.value[i].sources) = 1
                  /\ IsDefined(outcome.value[i].sources[1].type)
                  /\ Get(outcome.value[i].sources[1].type) \in validSourceTypesToExclude

\* The reasoning text a result falls back on: the reasoner's own text, or the
\* fixed text when the reasoner returned an empty one.
reasoningTextOf(i) ==
    IF returnedValue(i, "subClaimReasoning").reasoning = <<>>
    THEN <<"Sub-claim analysis did not provide detailed reasoning.">>
    ELSE returnedValue(i, "subClaimReasoning").reasoning

\* The trust reasoning text gathered for claim i: the analyzer's own text, or
\* the fixed text when the analyzer threw.
trustTextOf(i) ==
    IF threw(i, "analyzeTrustChain")
    THEN <<"Could not perform detailed source analysis due to an error during trust chain analysis.">>
    ELSE returnedValue(i, "analyzeTrustChain").reasoning

\* C11: when the explanation synthesizer throws for a claim whose reasoner
\* returned, the result keeps the reasoner's verdict as status and its
\* explanation is the labelled concatenation of the reasoning text and the
\* trust reasoning text (each the stage's own text or its fallback text);
\* it is not empty and not the error explanation.
C11_ExplanationFallback ==
    (Finished /\ ExtractorReturnedClaims) =>
        /\ outcome.kind = "return"
        /\ Len(outcome.value) = Len(ExtractedList)
        /\ \A i \in 1..Len(ExtractedList) :
              (threw(i, "generateExplanation") /\ returned(i, "subClaimReasoning")) =>
                  /\ outcome.value[i].status =
                        returnedValue(i, "subClaimReasoning").overallVerdict
                  /\ outcome.value[i].explanation =
                        <<"Sub-Claim Reasoning: ">> \o reasoningTextOf(i)
                            \o <<"\n\nTrust Analysis Reasoning: ">> \o trustTextOf(i)
                  /\ outcome.value[i].explanation # <<>>
                  /\ outcome.value[i].explanation #
                        <<"An error occurred during the main verification pipeline for this claim.">>

\* C11 witness: the synthesizer threw after the reasoner returned an empty
\* reasoning text and the trust analyzer threw: both parts are fallback texts.
C11_Witness ==
    /\ PerClaimList
    /\ \E i \in 1..Len(outcome.value) :
          /\ threw(i, "generateExplanation")
          /\ threw(i, "analyzeTrustChain")
          /\ returnedValue(i, "subClaimReasoning").reasoning = <<>>
          /\ outcome.value[i].status = "neutral"
          /\ Len(outcome.value[i].explanation) = 4

\* The ids reserved for the batch-level results.
ReservedIds == { <<"no_claims_found">>, <<"error-general">> }

\* C14: a result with a reserved id is the single element of a batch-level
\* outcome (no claims extracted, or extraction failed); every per-claim
\* result has an id that is not reserved; the ids within one returned list
\* are pairwise distinct.
C14_ReservedIdsAreBatchLevel ==
    (Finished /\ outcome.kind = "return") =>
        /\ \A k \in 1..Len(outcome.value) :
              outcome.value[k].id \in ReservedIds =>
                  /\ Len(outcome.value) = 1
                  /\ ~ExtractorReturnedClaims
                  /\ claimPc = <<>>
        /\ ExtractorReturnedClaims =>
              \A k \in 1..Len(outcome.value) : outcome.value[k].id \notin ReservedIds
        /\ \A j, k \in 1..Len(outcome.value) :
              j # k => outcome.value[j].id # outcome.value[k].id

\* C14 witness: a returned two-claim batch whose callbacks read the same
\* instant of the clock, so the ids differ by the index alone.
C14_Witness ==
    /\ PerClaimList
    /\ Len(outcome.value) = 2
    /\ outcome.value[1].id[2] = outcome.value[2].id[2]
    /\ outcome.value[1].id # outcome.value[2].id

\* C16: once the reasoner call of a claim has thrown, the claim's pipeline
\* has ended without a trust-analyzer call and without a synthesizer call,
\* and the claim's result has the fixed error explanation, no trustAnalysis
\* and no verdictConfidence.
C16_NoStageAfterReasonerThrow ==
    \A i \in Claims :
        threw(i, "subClaimReasoning") =>
            /\ claimPc[i] = "done"
            /\ ~wasCalled(i, "analyzeTrustChain")
            /\ ~wasCalled(i, "generateExplanation")
            /\ claimCalls[i][Len(claimCalls[i])].fn = "subClaimReasoning"
            /\ Finished =>
                  /\ outcome.kind = "return"
                  /\ Len(outcome.value) >= i
                  /\ outcome.value[i].explanation =
                        <<"An error occurred during the main verification pipeline for this claim.">>
                  /\ ~IsDefined(outcome.value[i].trustAnalysis)
                  /\ ~IsDefined(outcome.value[i].verdictConfidence)

\* C16 witness: the batch returned with a claim whose reasoner threw, while
\* another claim of the batch went through trust analysis and explanation.
C16_Witness ==
    /\ PerClaimList
    /\ Len(outcome.value) = 2
    /\ threw(2, "subClaimReasoning")
    /\ ~wasCalled(2, "analyzeTrustChain")
    /\ returned(1, "analyzeTrustChain")
    /\ returned(1, "generateExplanation")

\* The collaborators of one claim's pipeline, in the order of its stages.
StageOrder ==
    <<"checkSmartCache", "evaluateClaimQuality", "subClaimReasoning",
      "analyzeTrustChain", "generateExplanation">>

\* C17: the calls issued for a claim are a prefix of the stage order (cache
\* check, quality, reasoning, trust, explanation), so each stage is invoked
\* at most once; every call but the last has completed before the next was
\* issued; the reasoner is called with the claim and maxIterations = 2, and
\* a pipeline that has ended has called it exactly once.
C17_StagesInOrder ==
    \A i \in Claims :
        LET calls == claimCalls[i] IN
        /\ Len(calls) >= 1
        /\ Len(calls) <= Len(StageOrder)
        /\ \A k \in 1..Len(calls) : calls[k].fn = StageOrder[k]
        /\ \A k \in 1..(Len(calls) - 1) : IsDefined(calls[k].result)
        /\ claimPc[i] # "done" <=> ~IsDefined(calls[Len(calls)].result)
        /\ \A k \in 1..Len(calls) :
              calls[k].fn = "subClaimReasoning" =>
                  /\ calls[k].args.claim = extractedClaimStrings[i]
                  /\ calls[k].args.maxIterations = 2
        /\ claimPc[i] = "done" =>
              Cardinality({k \in 1..Len(calls) : calls[k].fn = "subClaimReasoning"}) = 1

\* C17 witness: a pipeline that ran all five stages, with the quality and
\* the trust call ending in a throw.
C17_Witness ==
    \E i \in Claims :
        /\ claimPc[i] = "done"
        /\ Len(claimCalls[i]) = 5
        /\ threw(i, "evaluateClaimQuality")
        /\ threw(i, "analyzeTrustChain")
        /\ returned(i, "generateExplanation")

\* The locals of claim j's callback as its own completed calls determine
\* them, stage by stage; a stage that has not completed leaves them as they
\* were.
ownAfterQuality(j) ==
    LET l0 == InitialLocals(loc[j].claimId) IN
    IF ~ended(j, "evaluateClaimQuality") THEN l0
    ELSE IF threw(j, "evaluateClaimQuality") THEN qualityCatch(l0)
    ELSE afterQualityReturn(l0, returnedValue(j, "evaluateClaimQuality"))

ownAfterReasoner(j) ==
    IF returned(j, "subClaimReasoning")
    THEN afterReasonerReturn(ownAfterQuality(j), returnedValue(j, "subClaimReasoning"))
    ELSE ownAfterQuality(j)

ownAfterTrust(j) ==
    IF ~ended(j, "analyzeTrustChain") THEN ownAfterReasoner(j)
    ELSE IF threw(j, "analyzeTrustChain") THEN trustCatch(ownAfterReasoner(j))
    ELSE afterTrustReturn(ownAfterReasoner(j), returnedValue(j, "analyzeTrustChain"))

\* C18: in every state of every interleaving, the locals of claim i's
\* pipeline are those its own completed calls determine; the evidence and
\* the verdict of the synthesizer call issued for claim i are built from
\* them and from claim i's text; and result i is built from them.
C18_PipelinesShareNoState ==
    \A i \in Claims :
        LET claimText == extractedClaimStrings[i]
            lt == ownAfterTrust(i)
            lx == IF ~ended(i, "generateExplanation") THEN lt
                  ELSE IF threw(i, "generateExplanation") THEN explanationCatch(lt)
                  ELSE afterExplanationReturn(lt, returnedValue(i, "generateExplanation"))
        IN
        /\ loc[i].claimId[3] = ToString(i - 1)
        /\ loc[i] = lx
        /\ claimPc[i] = "explain" =>
              LET args == awaitedArgs(i) IN
              /\ args.claim = claimText
              /\ args.evidence = evidenceForExplanation(lt, claimText)
              /\ args.verdict = returnedValue(i, "subClaimReasoning").overallVerdict
        /\ (Finished /\ outcome.kind = "return" /\ Len(outcome.value) >= i) =>
              outcome.value[i] =
                  IF threw(i, "subClaimReasoning")
                  THEN ClaimErrorResult(lx, claimText, thrownError(i, "subClaimReasoning"), text)
                  ELSE ClaimResult(lx, claimText, text)

\* C18 witness: two pipelines are under way at once, at different stages
\* and with different stage outputs: the first awaits the synthesizer after
\* its quality call returned, the second awaits the trust analyzer after
\* its quality call threw.
C18_Witness ==
    /\ pc = "awaitAll"
    /\ Len(claimPc) = 2
    /\ claimPc[1] = "explain"
    /\ claimPc[2] = "trust"
    /\ returned(1, "evaluateClaimQuality")
    /\ threw(2, "evaluateClaimQuality")
    /\ loc[1].finalStatus # loc[2].finalStatus
    /\ extractedClaimStrings[1] # extractedClaimStrings[2]

\* The pieces `sub` occur in the text s from position k on.
occursAt(s, k, sub) ==
    /\ k + Len(sub) - 1 <= Len(s)
    /\ SubSeq(s, k, k + Len(sub) - 1) = sub

\* The piece x occurs in the text s, and the first position where it does.
occurs(s, x) == \E k \in 1..Len(s) : s[k] = x
firstIndex(s, x) ==
    CHOOSE k \in 1..Len(s) : s[k] = x /\ \A j \in 1..(k - 1) : s[j] # x

\* The quality assessment text of claim i: the evaluator's, or the fallback's.
qualityTextOf(i) ==
    IF threw(i, "evaluateClaimQuality")
    THEN <<"Could not evaluate claim quality due to an error.">>
    ELSE returnedValue(i, "evaluateClaimQuality").overallAssessment

\* The trust score of claim i in hundredths: the analyzer's, or the
\* placeholder's 0.
trustScoreOf(i) ==
    IF threw(i, "analyzeTrustChain") THEN 0
    ELSE returnedValue(i, "analyzeTrustChain").trustScore

\* C19: whenever a claim's pipeline awaits the synthesizer, the call it
\* issued carries the claim text, the verdict the
\* claim's reasoner returned, and an evidence text in which the quality
\* summary, the reasoning summary (verdict, confidence, reasoning) and the
\* trust findings (score, trust reasoning) occur in this order, with the
\* fallback values where the quality or the trust call threw.
C19_EvidencePassedToSynthesizer ==
    \A i \in Claims :
        claimPc[i] = "explain" =>
            LET args == awaitedArgs(i)
                ev == args.evidence
                r == returnedValue(i, "subClaimReasoning")
                qualityPart == <<"Claim Quality Assessment: ">> \o qualityTextOf(i)
                reasoningPart ==
                    <<"Verdict from Sub-Claim Analysis: ", r.overallVerdict, " (Confidence: ">>
                        \o toFixed2OrNA(r.verdictConfidence)
                        \o <<").\nReasoning from Sub-Claims: ">> \o reasoningTextOf(i)
                trustPart ==
                    <<"\nVerdict from Trust & Source Analysis (Trust Score: ">>
                        \o toFixed2(trustScoreOf(i))
                        \o <<"):\nReasoning from Trust/Source Analysis: ">> \o trustTextOf(i)
            IN
            /\ args.claim = extractedClaimStrings[i]
            /\ args.verdict = r.overallVerdict
            /\ occurs(ev, qualityPart[1])
            /\ occurs(ev, reasoningPart[1])
            /\ occurs(ev, trustPart[1])
            /\ LET a == firstIndex(ev, qualityPart[1])
                   b == firstIndex(ev, reasoningPart[1])
                   c == firstIndex(ev, trustPart[1]) IN
               /\ a + Len(qualityPart) <= b
               /\ b + Len(reasoningPart) <= c
               /\ occursAt(ev, a, qualityPart)
               /\ occursAt(ev, b, reasoningPart)
               /\ occursAt(ev, c, trustPart)

\* C19 witness: the synthesizer was called for a claim whose quality call
\* and trust call both threw, after the reasoner returned 'contradicted'.
C19_Witness ==
    \E i \in Claims :
        /\ claimPc[i] = "explain"
        /\ threw(i, "evaluateClaimQuality")
        /\ threw(i, "analyzeTrustChain")
        /\ awaitedArgs(i).verdict = "contradicted"

\* A result without the ids it carries: its own and those of its sources.
withoutIds(r) ==
    [r EXCEPT !.id = <<>>,
              !.sources = [k \in 1..Len(r.sources) |-> [r.sources[k] EXCEPT !.id = <<>>]]]

\* C13: with deterministic collaborators, the second of two calls on the
\* same text returns a list of the same length whose results, taken in
\* order, agree with those of the first call in every field except the
\* result ids and the source ids.
C13_SecondCallAgreesExceptIds ==
    (Finished /\ IsDefined(previous)) =>
        LET first == Get(previous).outcome IN
        /\ Get(previous).text = text
        /\ outcome.kind = first.kind
        /\ Len(outcome.value) = Len(first.value)
        /\ \A k \in 1..Len(outcome.value) :
              k <= Len(first.value) =>
                  withoutIds(outcome.value[k]) = withoutIds(first.value[k])

\* C13 witness: both calls returned two results, the first an error result
\* and the second one with analyzed sources, and the ids of the two calls
\* differ while the source summaries agree.
C13_Witness ==
    /\ Finished
    /\ IsDefined(previous)
    /\ Len(outcome.value) = 2
    /\ Len(Get(previous).outcome.value) = 2
    /\ outcome.value[1].status = "error"
    /\ Len(outcome.value[2].sources) = 2
    /\ outcome.value[2].id # Get(previous).outcome.value[2].id
    /\ outcome.value[2].sources[1].id # Get(previous).outcome.value[2].sources[1].id
    /\ outcome.value[2].sources[1].shortSummary
            = Get(previous).outcome.value[2].sources[1].shortSummary

\* C15: when every awaited collaborator call eventually completes, every
\* claim's pipeline eventually ends (with a result or an error result), a
\* call of verifyClaimsInText that has started eventually returns, and it
\* has returned only when every pipeline of the batch has ended.
C15_PipelinesEndThenCallReturns ==
    /\ (pc # "idle") ~>
            (Finished /\ outcome.kind = "return" /\ \A i \in Claims : claimPc[i] = "done")
    /\ [](Finished => \A i \in Claims : claimPc[i] = "done" /\ IsDefined(all.values[i]))

\* C15 witness: the call returned a two-claim batch after one pipeline ended
\* in the error result and the other ran through every stage.
C15_Witness ==
    /\ PerClaimList
    /\ Len(outcome.value) = 2
    /\ claimPc[1] = "done"
    /\ claimPc[2] = "done"
    /\ threw(1, "subClaimReasoning")
    /\ ended(2, "generateExplanation")

\* The reasoner calls of claim i issued with maxIterations = n, and its
\* trust-analyzer calls for the claim itself and for other texts.
reasonerCallsWith(i, n) ==
    { k \in 1..Len(claimCalls[i]) :
        /\ claimCalls[i][k].fn = "subClaimReasoning"
        /\ claimCalls[i][k].args.maxIterations = n }
subTrustCalls(i) ==
    { k \in 1..Len(claimCalls[i]) :
        /\ claimCalls[i][k].fn = "analyzeTrustChain"
        /\ claimCalls[i][k].args.claimText # extractedClaimStrings[i] }
mainTrustCalls(i) ==
    { k \in 1..Len(claimCalls[i]) :
        /\ claimCalls[i][k].fn = "analyzeTrustChain"
        /\ claimCalls[i][k].args.claimText = extractedClaimStrings[i] }

\* The primary reasoner call of claim i returned, and what it returned.
primaryIndex(i) == CHOOSE k \in reasonerCallsWith(i, 2) : TRUE
primaryReturned(i) ==
    /\ reasonerCallsWith(i, 2) # {}
    /\ IsDefined(claimCalls[i][primaryIndex(i)].result)
    /\ Get(claimCalls[i][primaryIndex(i)].result).kind = "return"
primaryValue(i) == Get(Get(claimCalls[i][primaryIndex(i)].result).value)

\* The candidates the primary reasoner call returned (none when it returned
\* no list).
candidatesOf(i) ==
    IF IsDefined(primaryValue(i).subClaimsForFurtherVerification)
    THEN Get(primaryValue(i).subClaimsForFurtherVerification) ELSE <<>>

\* At least one candidate, and a confidence that is undefined or below 0.85.
expansionDue(i) ==
    /\ Len(candidatesOf(i)) >= 1
    /\ \/ ~IsDefined(primaryValue(i).verdictConfidence)
       \/ Get(primaryValue(i).verdictConfidence) < 85

thrownSubCalls(i) ==
    { k \in reasonerCallsWith(i, 1) \cup subTrustCalls(i) :
        /\ IsDefined(claimCalls[i][k].result)
        /\ Get(claimCalls[i][k].result).kind = "throw" }

\* The sub-claim a sub-claim call is about.
subClaimOfCall(c) == IF c.fn = "subClaimReasoning" THEN c.args.claim ELSE c.args.claimText

\* The text contains an error note that names the sub-claim.
hasErrorNoteFor(ev, subClaimText) ==
    \E p \in 1..Len(ev), stage \in {"reasoning", "trust analysis"} :
        occursAt(ev, p, <<"\nError during ", stage, " of sub-claim \"", subClaimText, "\"\n">>)

resultOf(i) == outcome.value[i]

\* The call returned one result per extracted claim.
ReturnedPerClaim ==
    /\ Finished
    /\ outcome.kind = "return"
    /\ Claims # {}
    /\ Len(outcome.value) = Len(extractedClaimStrings)

\* C21: the result of a claim carries correctedInformation exactly when the
\* synthesizer was called with the verdict 'contradicted' and returned a
\* correctedInformation text, and then the result carries that text.
C21_CorrectedInformationOnContradicted ==
    ReturnedPerClaim =>
        \A i \in Claims :
            LET synthesized ==
                    /\ returned(i, "generateExplanation")
                    /\ claimCalls[i][callIndex(i, "generateExplanation")].args.verdict = "contradicted"
                    /\ IsDefined(returnedValue(i, "generateExplanation").correctedInformation) IN
            /\ IsDefined(resultOf(i).correctedInformation) <=> synthesized
            /\ synthesized =>
                  resultOf(i).correctedInformation =
                      returnedValue(i, "generateExplanation").correctedInformation

\* The evaluator's call for claim i returned the default the flow
\* substitutes when its model yields no output.
qualityModelGaveNoOutput(i) ==
    /\ returned(i, "evaluateClaimQuality")
    /\ returnedValue(i, "evaluateClaimQuality").overallAssessment =
            <<"Could not evaluate claim quality due to an LLM error.">>

\* Every rating but faithfulness is at its lowest value.
lowestRatings(q) ==
    /\ q.atomicity = "low"
    /\ q.fluency = "poor"
    /\ q.decontextualization = "low"
    /\ q.focus = "broad"
    /\ q.checkworthiness = "low"

\* C22 as stated: whichever way quality evaluation fails for a claim (the
\* call throws, or the model yields no output), the result carries the same
\* fixed fallback assessment: lowest ratings and faithfulness 'na'.
C22_SameFallbackEitherWay ==
    ReturnedPerClaim =>
        \A i \in Claims :
            (threw(i, "evaluateClaimQuality") \/ qualityModelGaveNoOutput(i)) =>
                /\ IsDefined(resultOf(i).claimQualityMetrics)
                /\ Get(resultOf(i).claimQualityMetrics) = FallbackQuality

\* C22 amended: either way the result carries an assessment with the lowest
\* ratings; faithfulness is 'na' and the text names 'an error' when the
\* evaluator call threw, and faithfulness is 'low' and the text names 'an
\* LLM error' when the model yielded no output.
C22_FallbackPerFailure ==
    ReturnedPerClaim =>
        \A i \in Claims :
            /\ threw(i, "evaluateClaimQuality") =>
                  /\ IsDefined(resultOf(i).claimQualityMetrics)
                  /\ LET q == Get(resultOf(i).claimQualityMetrics) IN
                        /\ lowestRatings(q)
                        /\ q.faithfulness = "na"
                        /\ q.overallAssessment =
                              <<"Could not evaluate claim quality due to an error.">>
            /\ qualityModelGaveNoOutput(i) =>
                  /\ IsDefined(resultOf(i).claimQualityMetrics)
                  /\ LET q == Get(resultOf(i).claimQualityMetrics) IN
                        /\ lowestRatings(q)
                        /\ q.faithfulness = "low"
                        /\ q.overallAssessment =
                              <<"Could not evaluate claim quality due to an LLM error.">>

\* C22 witness: of two claims, the evaluator threw for the first and its
\* model yielded no output for the second; the results carry 'na' and 'low'.
C22_Witness ==
    /\ ReturnedPerClaim
    /\ Len(outcome.value) = 2
    /\ threw(1, "evaluateClaimQuality")
    /\ qualityModelGaveNoOutput(2)
    /\ Get(resultOf(1).claimQualityMetrics).faithfulness = "na"
    /\ Get(resultOf(2).claimQualityMetrics).faithfulness = "low"

\* The sources ClaimCard presents as retrieved evidence (Header.tsx:155):
\* those whose type, or '' for a missing type, is not an excluded one.
actualSourcesOfCard(result) ==
    LET kept(s) == (IF IsDefined(s.type) THEN Get(s.type) ELSE "") \notin validSourceTypesToExclude
    IN SelectSeq(result.sources, kept)

\* The trust analysis of claim i gave no real evidence: the call threw, or
\* it returned no analyzed source.
noRealEvidence(i) ==
    \/ threw(i, "analyzeTrustChain")
    \/ /\ returned(i, "analyzeTrustChain")
       /\ LET analyzed == returnedValue(i, "analyzeTrustChain").analyzedSources IN
          ~IsDefined(analyzed) \/ Get(analyzed) = <<>>

\* C23 as stated: the placeholder source created when trust analysis throws
\* or returns no sources stays in the result's sources but is not among the
\* sources ClaimCard presents as retrieved evidence.
C23_PlaceholdersKeptButNotPresented ==
    ReturnedPerClaim =>
        \A i \in Claims :
            (noRealEvidence(i) /\ resultOf(i).status # "error") =>
                /\ Len(resultOf(i).sources) = 1
                /\ resultOf(i).sources[1].url = "#"
                /\ actualSourcesOfCard(resultOf(i)) = <<>>

\* The trust analyzer's flow for claim i got past query generation.
flowStarted(i) == "flowCalls" \in DOMAIN loc[i]

\* How query generation ended for claim i, and whether it gave no query.
queryGenResultOf(i) == Get(loc[i].flowCalls[1].result)
queryGenFailed(i) ==
    \/ queryGenResultOf(i).kind = "throw"
    \/ ~IsDefined(Get(queryGenResultOf(i).value))
    \/ Get(Get(queryGenResultOf(i).value)).queries = <<>>

\* The calls of the analysis prompt made for claim i.
analysisPromptCalls(i) ==
    { k \in 1..Len(loc[i].flowCalls) : loc[i].flowCalls[k].fn = "trustChainAnalysisPrompt" }

\* C24: once query generation has ended, the analysis prompt is called
\* exactly once; its search query is the claim text when query generation
\* threw or gave no query, and the first generated query otherwise; and
\* analyzeTrustChain throws only when the analysis prompt itself threw.
C24_QueryGenerationFallsBackToClaimText ==
    \A i \in Claims :
        /\ flowStarted(i) =>
              /\ Cardinality(analysisPromptCalls(i)) = 1
              /\ LET prompt == loc[i].flowCalls[CHOOSE k \in analysisPromptCalls(i) : TRUE] IN
                    /\ prompt.args.claimText = extractedClaimStrings[i]
                    /\ queryGenFailed(i) =>
                          prompt.args.searchQueryUsed = <<extractedClaimStrings[i]>>
                    /\ ~queryGenFailed(i) =>
                          prompt.args.searchQueryUsed =
                              Get(Get(queryGenResultOf(i).value)).queries[1]
                    /\ (IsDefined(prompt.result) /\ Get(prompt.result).kind = "return") =>
                          returned(i, "analyzeTrustChain")
        /\ threw(i, "analyzeTrustChain") =>
              /\ flowStarted(i)
              /\ \E k \in analysisPromptCalls(i) :
                    /\ IsDefined(loc[i].flowCalls[k].result)
                    /\ Get(loc[i].flowCalls[k].result).kind = "throw"

\* C24 witness: query generation threw for the first claim and gave three
\* queries for the second; the analysis prompt returned for both, with the
\* claim text and with 'query one', and analyzeTrustChain returned.
C24_Witness ==
    /\ ReturnedPerClaim
    /\ Len(outcome.value) = 2
    /\ flowStarted(1)
    /\ flowStarted(2)
    /\ queryGenResultOf(1).kind = "throw"
    /\ loc[1].flowCalls[2].args.searchQueryUsed = <<extractedClaimStrings[1]>>
    /\ returned(1, "analyzeTrustChain")
    /\ ~queryGenFailed(2)
    /\ Len(Get(Get(queryGenResultOf(2).value)).queries) = 3
    /\ loc[2].flowCalls[2].args.searchQueryUsed = <<"query one">>
    /\ returned(2, "analyzeTrustChain")

\* C25: the cache gate reports a miss for every claim: each claim's first
\* call is the cache check, it returns null, no pipeline ends at the gate,
\* and the call that follows is the quality evaluation.
C25_CacheGateAlwaysMisses ==
    \A i \in Claims :
        /\ claimCalls[i][1].fn = "checkSmartCache"
        /\ claimCalls[i][1].args.claimText = extractedClaimStrings[i]
        /\ ended(i, "checkSmartCache") =>
              /\ returned(i, "checkSmartCache")
              /\ returnedValue(i, "checkSmartCache") = Undefined
              /\ Len(claimCalls[i]) >= 2
              /\ claimCalls[i][2].fn = "evaluateClaimQuality"
              /\ claimCalls[i][2].args.claimText = extractedClaimStrings[i]
        /\ claimPc[i] = "done" => ended(i, "evaluateClaimQuality")

\* C25 witness: the call returned the results of two claims, and both had
\* a cache miss followed by a quality evaluation.
C25_Witness ==
    /\ ReturnedPerClaim
    /\ Len(outcome.value) = 2
    /\ \A i \in 1..2 :
          /\ returnedValue(i, "checkSmartCache") = Undefined
          /\ ended(i, "evaluateClaimQuality")

\* The cache gate returned a cached result for claim i.
cacheHit(i) ==
    /\ returned(i, "checkSmartCache")
    /\ IsDefined(returnedValue(i, "checkSmartCache"))

\* C26: when the cache gate returns a cached result for a claim, no other
\* collaborator is called for that claim, and the claim's result is the
\* cached result except for three properties: its id is the fresh id of
\* this batch's claim, isProcessing is false, and originalTextContext is
\* the text of this call.
C26_CacheHitIsRestamped ==
    \A i \in Claims :
        cacheHit(i) =>
            /\ Len(claimCalls[i]) = 1
            /\ claimPc[i] = "done"
            /\ ReturnedPerClaim =>
                  LET cached == Get(returnedValue(i, "checkSmartCache")) IN
                  /\ [resultOf(i) EXCEPT !.id = cached.id,
                                         !.isProcessing = cached.isProcessing,
                                         !.originalTextContext = cached.originalTextContext]
                        = cached
                  /\ resultOf(i).id = <<"claim", Instants[1], ToString(i - 1)>>
                  /\ resultOf(i).isProcessing = FALSE
                  /\ resultOf(i).originalTextContext = Some(text)

\* C26 witness: of two claims the first had a cache hit and the second a
\* miss; the call returned the cached explanation under a fresh id for the
\* first and a synthesized explanation for the second.
C26_Witness ==
    /\ ReturnedPerClaim
    /\ Len(outcome.value) = 2
    /\ cacheHit(1)
    /\ ~cacheHit(2)
    /\ resultOf(1).explanation = <<"Cached explanation.">>
    /\ resultOf(1).id # Get(returnedValue(1, "checkSmartCache")).id
    /\ returned(2, "generateExplanation")

\* The sources the trust analyzer returned for claim i; none when it threw.
analyzedSourcesOf(i) ==
    IF returned(i, "analyzeTrustChain")
          /\ IsDefined(returnedValue(i, "analyzeTrustChain").analyzedSources)
    THEN Get(returnedValue(i, "analyzeTrustChain").analyzedSources)
    ELSE <<>>

\* C27: in the list the call returned, a batch-level sentinel and a result
\* with status 'error' have no sources; any other result has the analyzer's
\* sources, one for one and in the analyzer's order, when the analyzer
\* returned at least one, and exactly one placeholder source otherwise.
C27_SourcesOfEveryResult ==
    (Finished /\ outcome.kind = "return") =>
        \A k \in 1..Len(outcome.value) :
            LET r == outcome.value[k] IN
            IF r.id \in ReservedIds \/ r.status = "error"
            THEN r.sources = <<>>
            ELSE /\ k \in Claims
                 /\ LET analyzed == analyzedSourcesOf(k) IN
                    IF Len(analyzed) >= 1
                    THEN /\ Len(r.sources) = Len(analyzed)
                         /\ \A j \in 1..Len(analyzed) :
                               /\ r.sources[j].url = analyzed[j].link
                               /\ r.sources[j].title = analyzed[j].title
                               /\ r.sources[j].shortSummary = Some(analyzed[j].snippet)
                         /\ \A j, h \in 1..Len(analyzed) :
                               r.sources[j].id = r.sources[h].id => j = h
                    ELSE /\ Len(r.sources) = 1
                         /\ r.sources[1].url = "#"

\* C27 witness: one call returned two results: one lists the two sources
\* the analyzer returned, in its order; the other, whose analyzer returned
\* no source, has one placeholder.
C27_Witness ==
    /\ ReturnedPerClaim
    /\ Len(outcome.value) = 2
    /\ Len(analyzedSourcesOf(1)) = 2
    /\ Len(resultOf(1).sources) = 2
    /\ resultOf(1).sources[1].title = "Abstract A"
    /\ resultOf(1).sources[2].title = "Topic B"
    /\ returned(2, "analyzeTrustChain")
    /\ analyzedSourcesOf(2) = <<>>
    /\ Len(resultOf(2).sources) = 1
    /\ resultOf(2).sources[1].url = "#"

\* The reasoner's call for claim i returned the default the flow
\* substitutes when its model yields no output.
reasonerModelGaveNoOutput(i) ==
    /\ returned(i, "subClaimReasoning")
    /\ returnedValue(i, "subClaimReasoning").reasoning =
            <<"Could not perform sub-claim reasoning due to an LLM error.">>

\* C28: when the reasoner's model yields no output, subClaimReasoning
\* returns 'neutral' with confidence 0 and an empty sub-claim list; the
\* pipeline goes on through the trust and explanation stages, and the
\* claim's result has status 'neutral' and verdictConfidence 0 and is no
\* error result.
C28_ReasonerNoOutputIsNeutral ==
    \A i \in Claims :
        reasonerModelGaveNoOutput(i) =>
            /\ LET subClaimResult == returnedValue(i, "subClaimReasoning") IN
                  /\ subClaimResult.overallVerdict = "neutral"
                  /\ subClaimResult.verdictConfidence = Some(0)
                  /\ subClaimResult.subClaimsForFurtherVerification = Some(<<>>)
            /\ wasCalled(i, "analyzeTrustChain")
            /\ claimPc[i] = "done" =>
                  /\ ended(i, "analyzeTrustChain")
                  /\ ended(i, "generateExplanation")
            /\ ReturnedPerClaim =>
                  /\ resultOf(i).status = "neutral"
                  /\ resultOf(i).verdictConfidence = Some(0)
                  /\ ~IsDefined(resultOf(i).errorMessage)

\* C28 witness: the reasoner's model yielded no output for a claim, the
\* synthesizer returned, and the call returned a 'neutral' result with
\* confidence 0 for it.
C28_Witness ==
    /\ ReturnedPerClaim
    /\ reasonerModelGaveNoOutput(1)
    /\ returned(1, "analyzeTrustChain")
    /\ returned(1, "generateExplanation")
    /\ resultOf(1).status = "neutral"
    /\ resultOf(1).verdictConfidence = Some(0)

\* C29: quality evaluation has ended before the reasoner is called, and
\* every per-claim result, an 'error' result included, carries quality
\* metrics (what the evaluator returned, or the fallback ratings when it
\* threw), isProcessing false and the call's text as originalTextContext.
C29_EveryResultCarriesQuality ==
    \A i \in Claims :
        /\ wasCalled(i, "subClaimReasoning") =>
              /\ ended(i, "evaluateClaimQuality")
              /\ callIndex(i, "evaluateClaimQuality") < callIndex(i, "subClaimReasoning")
        /\ ReturnedPerClaim =>
              /\ ended(i, "evaluateClaimQuality")
              /\ IsDefined(resultOf(i).claimQualityMetrics)
              /\ LET q == Get(resultOf(i).claimQualityMetrics) IN
                    IF returned(i, "evaluateClaimQuality")
                    THEN q = returnedValue(i, "evaluateClaimQuality")
                    ELSE lowestRatings(q) /\ q.faithfulness = "na"
              /\ resultOf(i).isProcessing = FALSE
              /\ resultOf(i).originalTextContext = Some(text)

\* C29 witness: the reasoner threw for a claim whose quality evaluation had
\* returned, and the claim's 'error' result carries the evaluator's
\* assessment.
C29_Witness ==
    /\ ReturnedPerClaim
    /\ \E i \in Claims :
          /\ returned(i, "evaluateClaimQuality")
          /\ threw(i, "subClaimReasoning")
          /\ resultOf(i).status = "error"
          /\ resultOf(i).claimQualityMetrics = Some(returnedValue(i, "evaluateClaimQuality"))

\* ------------------------------------------------------------------ C30
\* C30: the internet search tool never throws and always returns a
\* bounded, non-empty list: between 1 and 5 results, for every query and
\* every outcome of the HTTP request.
C30_SearchToolNeverThrows ==
    search.pc = "done" =>
        /\ search.outcome = "return"
        /\ Len(search.searchResults) >= 1
        /\ Len(search.searchResults) <= 5

====
